---- MODULE Spec2Model ----
(***************************************************************************)
(* A model of the snapshot-metadata gateway's streaming handlers            *)
(* (GetMetadataAllocated / GetMetadataDelta): request validation,           *)
(* authentication, the readiness gate, request conversion and the loop      *)
(* that forwards the CSI driver's response stream to the caller.            *)
(***************************************************************************)
EXTENDS Integers, Sequences, FiniteSets, TLC

VARIABLES
    kind,       \* which RPC the current invocation serves: "Allocated" | "Delta" | "none"
    req,        \* the request of the current invocation
    pc,         \* position of the handler in its body
    ready,      \* the process-wide CSI driver readiness flag
    lastWrite,  \* the writer of the readiness flag that ran last, if any
    cancelled,  \* the caller has cancelled the call of the current invocation
    calls,      \* external calls issued by the current invocation, in order
    csiReq,     \* the request assembled for the CSI driver
    csiResp,    \* the record received from the driver and not yet sent
    received,   \* records received from the driver stream, in order
    sent,       \* records sent with success on the caller stream, in order
    recvEnd,    \* the terminal outcome of the driver stream's Recv, if any
    sendErr,    \* the error of the caller stream's Send, if any
    result,     \* what the handler returned
    iter        \* the client iterator: its settings and what it has resolved

vars == <<kind, req, pc, ready, lastWrite, cancelled, calls, csiReq, csiResp, received, sent, recvEnd, sendErr, result, iter>>

----------------------------------------------------------------------------
(* Bounds of the model. *)

\* The longest driver stream, in records.
MaxRecords == 2

----------------------------------------------------------------------------
(* Errors and gRPC statuses.  An error value is a record; a gRPC status     *)
(* error carries a code and a message, any other error only its text.       *)
(* A formatted message is the sequence of its format stem and arguments.    *)

Nil == [kind |-> "nil", code |-> "OK", msg |-> <<>>]

\* status.Errorf(code, format, args...)
StatusErrorf(code, format, args) == [kind |-> "status", code |-> code, msg |-> <<format>> \o args]

\* errors.New(text) / fmt.Errorf(text): not a gRPC status
PlainError(text) == [kind |-> "error", code |-> "", msg |-> <<text>>]

\* io.EOF and io.ErrUnexpectedEOF
ioEOF == PlainError("EOF")
ioErrUnexpectedEOF == PlainError("unexpected EOF")

\* err.Error()
ErrorText(err) ==
    IF err.kind = "status"
    THEN <<"rpc error: code = ", err.code, " desc = ">> \o err.msg
    ELSE err.msg

\* status.FromError(err): ok
IsStatusError(err) == err.kind = "status"

\* The fixed messages of the handlers.  The texts the specification quotes are
\* written out; every other message is named by its constant.
msgInvalidArgumentSecurityTokenMissing == "security token missing"
msgInvalidArgumentNamespaceMissing == "Namespace missing"
msgInvalidArgumentSnaphotNameMissing == "msgInvalidArgumentSnaphotNameMissing"
msgInvalidArgumentBaseSnapshotNameMissing == "msgInvalidArgumentBaseSnapshotNameMissing"
msgInvalidArgumentTargetSnapshotNameMissing == "msgInvalidArgumentTargetSnapshotNameMissing"
msgInvalidArgumentSnaphotDriverInvalidFmt == "msgInvalidArgumentSnaphotDriverInvalidFmt"
msgInvalidArgumentDiffSnapshotSourceVolumes == "different source volumes"
msgUnauthenticatedUser == "msgUnauthenticatedUser"
msgUnauthenticatedFailedTokenReview == "msgUnauthenticatedFailedTokenReview"
msgUnavailableCSIDriverNotReady == "driver not ready"
msgUnavailableFailedToGetVolumeSnapshotFmt == "msgUnavailableFailedToGetVolumeSnapshotFmt"
msgUnavailableVolumeSnapshotNotReadyFmt == "msgUnavailableVolumeSnapshotNotReadyFmt"
msgUnavailableInvalidVolumeSnapshotStatusFmt == "msgUnavailableInvalidVolumeSnapshotStatusFmt"
msgUnavailableFailedToGetVolumeSnapshotContentFmt == "msgUnavailableFailedToGetVolumeSnapshotContentFmt"
msgUnavailableVolumeSnapshotContentNotReadyFmt == "msgUnavailableVolumeSnapshotContentNotReadyFmt"
msgUnavailableInvalidVolumeSnapshotContentStatusFmt == "msgUnavailableInvalidVolumeSnapshotContentStatusFmt"
msgUnavailableFailedToGetCredentials == "msgUnavailableFailedToGetCredentials"
msgInternalFailedCSIDriverResponseFmt == "CSI driver response failure"
msgInternalFailedtoSendResponseFmt == "failed to send response"

\* statusPassOrWrapError(err, code, format, args...): a status error is
\* returned as it is, any other error is replaced by a status with the code
\* and the formatted message.
statusPassOrWrapError(err, c, format, args) ==
    IF IsStatusError(err) THEN err ELSE StatusErrorf(c, format, args)

----------------------------------------------------------------------------
(* Requests. *)

SecurityTokens == {"", "token", "tokenFOO", "token-review-error", "token-wrong-audience",
                   "token-not-sa", "token-other-ns"}
Namespaces == {"", "test-ns", "other-ns"}
\* The snapshots of the tests and, last, three more: two with two defects
\* each and one whose class refers to no secret.
SnapshotNames == {"", "snap-1", "snap-2", "snap-doesnt-exist", "snap-not-ready",
                  "snap-with-no-vsc", "snap-content-doesnt-exist", "snap-with-content-not-ready",
                  "snap-with-content-no-snaphandle", "snap-with-invalid-driver",
                  "snap-other-volume", "snap-with-invalid-secrets", "snap-no-class",
                  "snap-not-ready-no-vsc", "snap-with-content-not-ready-no-snaphandle",
                  "snap-class-no-secret"}
\* (startingOffset, maxResults) pairs of a request
Ranges == {<<0, 0>>, <<25, 1>>}

NoReq == [isNil |-> TRUE, SecurityToken |-> "<none>", Namespace |-> "<none>", SnapshotName |-> "<none>",
          BaseSnapshotName |-> "<none>", TargetSnapshotName |-> "<none>",
          StartingOffset |-> 0, MaxResults |-> 0]

AllocatedRequests ==
    { [isNil |-> FALSE, SecurityToken |-> t, Namespace |-> n, SnapshotName |-> s,
       BaseSnapshotName |-> "", TargetSnapshotName |-> "",
       StartingOffset |-> r[1], MaxResults |-> r[2]] :
         t \in SecurityTokens, n \in Namespaces, s \in SnapshotNames, r \in Ranges }

DeltaRequests ==
    { [isNil |-> FALSE, SecurityToken |-> t, Namespace |-> n, SnapshotName |-> "",
       BaseSnapshotName |-> b, TargetSnapshotName |-> s,
       StartingOffset |-> r[1], MaxResults |-> r[2]] :
         t \in SecurityTokens, n \in Namespaces, b \in SnapshotNames, s \in SnapshotNames,
         r \in Ranges }

\* The generated getters: a nil request yields the zero value.
GetSecurityToken(r) == IF r.isNil THEN "" ELSE r.SecurityToken
GetNamespace(r) == IF r.isNil THEN "" ELSE r.Namespace
GetSnapshotName(r) == IF r.isNil THEN "" ELSE r.SnapshotName
GetBaseSnapshotName(r) == IF r.isNil THEN "" ELSE r.BaseSnapshotName
GetTargetSnapshotName(r) == IF r.isNil THEN "" ELSE r.TargetSnapshotName

\* A variant of validateGetMetadataAllocatedRequest that tests the namespace
\* before the security token.
validateGetMetadataAllocatedRequest_NamespaceFirst(r) ==
    IF Len(GetNamespace(r)) = 0
    THEN StatusErrorf("InvalidArgument", msgInvalidArgumentNamespaceMissing, <<>>)
    ELSE IF Len(GetSecurityToken(r)) = 0
    THEN StatusErrorf("InvalidArgument", msgInvalidArgumentSecurityTokenMissing, <<>>)
    ELSE IF Len(GetSnapshotName(r)) = 0
    THEN StatusErrorf("InvalidArgument", msgInvalidArgumentSnaphotNameMissing, <<>>)
    ELSE Nil

\* A variant of validateGetMetadataAllocatedRequest without the test of the
\* snapshot name.
validateGetMetadataAllocatedRequest_NoSnapshotName(r) ==
    IF Len(GetSecurityToken(r)) = 0
    THEN StatusErrorf("InvalidArgument", msgInvalidArgumentSecurityTokenMissing, <<>>)
    ELSE IF Len(GetNamespace(r)) = 0
    THEN StatusErrorf("InvalidArgument", msgInvalidArgumentNamespaceMissing, <<>>)
    ELSE Nil

validateGetMetadataAllocatedRequest(r) ==
    IF Len(GetSecurityToken(r)) = 0
    THEN StatusErrorf("InvalidArgument", msgInvalidArgumentSecurityTokenMissing, <<>>)
    ELSE IF Len(GetNamespace(r)) = 0
    THEN StatusErrorf("InvalidArgument", msgInvalidArgumentNamespaceMissing, <<>>)
    ELSE IF Len(GetSnapshotName(r)) = 0
    THEN StatusErrorf("InvalidArgument", msgInvalidArgumentSnaphotNameMissing, <<>>)
    ELSE Nil

validateGetMetadataDeltaRequest(r) ==
    IF Len(GetSecurityToken(r)) = 0
    THEN StatusErrorf("InvalidArgument", msgInvalidArgumentSecurityTokenMissing, <<>>)
    ELSE IF Len(GetNamespace(r)) = 0
    THEN StatusErrorf("InvalidArgument", msgInvalidArgumentNamespaceMissing, <<>>)
    ELSE IF Len(GetBaseSnapshotName(r)) = 0
    THEN StatusErrorf("InvalidArgument", msgInvalidArgumentBaseSnapshotNameMissing, <<>>)
    ELSE IF Len(GetTargetSnapshotName(r)) = 0
    THEN StatusErrorf("InvalidArgument", msgInvalidArgumentTargetSnapshotNameMissing, <<>>)
    ELSE Nil

----------------------------------------------------------------------------
(* The cluster the gateway reads: token reviews, snapshots, contents,        *)
(* snapshot classes and secrets.  All of it is read-only to the gateway and  *)
(* looked up afresh by every request.                                        *)

\* The gateway's configuration.
DriverName == "driver-X"
Audience == "audience-X"

\* A user name is the sequence of its characters, abridged to its
\* colon-separated words and the colons between them.
UserName(words) ==
    [i \in 1..(2 * Len(words) - 1) |-> IF i % 2 = 1 THEN words[(i + 1) \div 2] ELSE ":"]

\* What the cluster knows of a token: whether the review call itself fails,
\* the audiences the token is valid for and the user it identifies.
TokenInfo(token) ==
    CASE token = "token" ->
           [reviewFails |-> FALSE, known |-> TRUE, audiences |-> {Audience},
            username |-> UserName(<<"system", "serviceaccount", "test-ns", "sa">>)]
      [] token = "token-other-ns" ->
           [reviewFails |-> FALSE, known |-> TRUE, audiences |-> {Audience},
            username |-> UserName(<<"system", "serviceaccount", "other-ns", "sa">>)]
      [] token = "token-not-sa" ->
           [reviewFails |-> FALSE, known |-> TRUE, audiences |-> {Audience},
            username |-> UserName(<<"system", "admin">>)]
      [] token = "token-wrong-audience" ->
           [reviewFails |-> FALSE, known |-> TRUE, audiences |-> {"audience-other"},
            username |-> UserName(<<"system", "serviceaccount", "test-ns", "sa">>)]
      [] token = "token-review-error" ->
           [reviewFails |-> TRUE, known |-> FALSE, audiences |-> {}, username |-> <<>>]
      [] OTHER ->
           [reviewFails |-> FALSE, known |-> FALSE, audiences |-> {}, username |-> <<>>]

\* The TokenReview call: the token is authenticated when the cluster knows it
\* and it is valid for one of the audiences asked for.
TokenReview(token, audiences) ==
    LET t == TokenInfo(token) IN
    IF t.reviewFails
    THEN [err |-> PlainError("token review error"), authenticated |-> FALSE, username |-> <<>>]
    ELSE IF t.known /\ (t.audiences \cap audiences) # {}
    THEN [err |-> Nil, authenticated |-> TRUE, username |-> t.username]
    ELSE [err |-> Nil, authenticated |-> FALSE, username |-> <<>>]

\* strings.Split(s, ":")
RECURSIVE SplitColon(_)
SplitColon(s) ==
    IF \A i \in 1..Len(s) : s[i] # ":"
    THEN <<s>>
    ELSE LET k == CHOOSE i \in 1..Len(s) : s[i] = ":" /\ \A j \in 1..(i - 1) : s[j] # ":"
         IN  <<SubSeq(s, 1, k - 1)>> \o SplitColon(SubSeq(s, k + 1, Len(s)))

\* strings.HasPrefix(s, prefix)
HasPrefix(s, prefix) == Len(s) >= Len(prefix) /\ SubSeq(s, 1, Len(prefix)) = prefix

K8sServiceAccountUserNamePrefix == <<"system", ":", "serviceaccount", ":">>

\* A variant of authenticateAndAuthorize that accepts a service account of
\* any namespace.
authenticateAndAuthorize_AnyNamespace(token, namespace) ==
    LET review == TokenReview(token, {Audience})
        call   == <<<<"TokenReview", token>>>>
    IN  IF review.err # Nil
        THEN [err |-> StatusErrorf("Unauthenticated", msgUnauthenticatedFailedTokenReview,
                                   ErrorText(review.err)),
              calls |-> call]
        ELSE IF ~review.authenticated
        THEN [err |-> StatusErrorf("Unauthenticated", msgUnauthenticatedUser, <<>>), calls |-> call]
        ELSE IF ~HasPrefix(review.username, K8sServiceAccountUserNamePrefix)
        THEN [err |-> StatusErrorf("Unauthenticated", msgUnauthenticatedUser, <<>>), calls |-> call]
        ELSE [err |-> Nil, calls |-> call]

\* authenticateAndAuthorize(ctx, token, namespace): the error and the calls made.
authenticateAndAuthorize(token, namespace) ==
    LET review == TokenReview(token, {Audience})
        fields == SplitColon(review.username)
        call   == <<<<"TokenReview", token>>>>
    IN  IF review.err # Nil
        THEN [err |-> StatusErrorf("Unauthenticated", msgUnauthenticatedFailedTokenReview,
                                   ErrorText(review.err)),
              calls |-> call]
        ELSE IF ~review.authenticated
        THEN [err |-> StatusErrorf("Unauthenticated", msgUnauthenticatedUser, <<>>), calls |-> call]
        ELSE IF ~HasPrefix(review.username, K8sServiceAccountUserNamePrefix)
        THEN [err |-> StatusErrorf("Unauthenticated", msgUnauthenticatedUser, <<>>), calls |-> call]
        ELSE IF Len(fields) < 3 \/ fields[3] # <<namespace>>
        THEN [err |-> StatusErrorf("Unauthenticated", msgUnauthenticatedUser, <<>>), calls |-> call]
        ELSE [err |-> Nil, calls |-> call]

\* isCSIDriverReady(ctx), given the value of the readiness flag it reads.
isCSIDriverReady(flag) ==
    IF flag THEN Nil ELSE StatusErrorf("Unavailable", msgUnavailableCSIDriverNotReady, <<>>)

\* The VolumeSnapshot named `name`: present in every namespace, bound to the
\* content named after it, except as its name says.  A missing (nil) string
\* field is the empty sequence.
ContentNameFromSnapshot(name) == <<"snap-content", name>>
HandleFromSnapshot(name) == <<"snap-handle", name>>

VolumeSnapshot(namespace, name) ==
    [exists |-> name # "snap-doesnt-exist",
     readyToUse |-> name \notin {"snap-not-ready", "snap-not-ready-no-vsc"},
     boundContentName |-> IF name \in {"snap-with-no-vsc", "snap-not-ready-no-vsc"}
                          THEN <<>> ELSE ContentNameFromSnapshot(name),
     sourceVolume |-> IF name = "snap-other-volume" THEN "volume-other" ELSE "volume-1"]

VolumeSnapshotContent(name) ==
    [exists |-> name # ContentNameFromSnapshot("snap-content-doesnt-exist"),
     readyToUse |-> name \notin {ContentNameFromSnapshot("snap-with-content-not-ready"),
                                 ContentNameFromSnapshot("snap-with-content-not-ready-no-snaphandle")},
     snapshotHandle |-> IF name \in {ContentNameFromSnapshot("snap-with-content-no-snaphandle"),
                                     ContentNameFromSnapshot("snap-with-content-not-ready-no-snaphandle")}
                        THEN <<>> ELSE HandleFromSnapshot(name[2]),
     driver |-> IF name = ContentNameFromSnapshot("snap-with-invalid-driver")
                THEN "driver-unexpected" ELSE DriverName,
     className |-> CASE name = ContentNameFromSnapshot("snap-no-class") -> ""
                     [] name = ContentNameFromSnapshot("snap-with-invalid-secrets") -> "class-bad-secret"
                     [] name = ContentNameFromSnapshot("snap-class-no-secret") -> "class-no-secret"
                     [] OTHER -> "class-1"]

\* The secret reference of a snapshot class; an empty name where it has none.
VolumeSnapshotClassSecretRef(className) ==
    CASE className = "class-1" -> [name |-> "secret-1", namespace |-> "secret-ns"]
      [] className = "class-bad-secret" -> [name |-> "secret-missing", namespace |-> "secret-ns"]
      [] OTHER -> [name |-> "", namespace |-> ""]

\* Secret data: keys to byte slices.
SecretData(name) ==
    IF name = "secret-1"
    THEN [exists |-> TRUE, data |-> [userID  |-> [bytes |-> <<117, 49>>],
                                     userKey |-> [bytes |-> <<107, 49>>]]]
    ELSE [exists |-> FALSE, data |-> <<>>]

----------------------------------------------------------------------------
(* Resolving snapshots and credentials.  Each operation yields its error,   *)
(* its value and the cluster calls it issued, in order.                     *)

NoVsi == [DriverName |-> "", SnapshotHandle |-> <<>>, SourceVolume |-> "", VolumeSnapshotClassName |-> ""]
NoSecrets == <<>>

\* getVolSnapshotInfo(ctx, namespace, vsName)
getVolSnapshotInfo(namespace, vsName) ==
    LET vs      == VolumeSnapshot(namespace, vsName)
        getVS   == <<<<"GetVolumeSnapshot", namespace, vsName>>>>
        vsc     == VolumeSnapshotContent(vs.boundContentName)
        getVSC  == getVS \o <<<<"GetVolumeSnapshotContent", vs.boundContentName>>>>
    IN  IF ~vs.exists
        THEN [err |-> StatusErrorf("Unavailable", msgUnavailableFailedToGetVolumeSnapshotFmt,
                                   <<namespace, vsName, "does not exist">>),
              vsi |-> NoVsi, calls |-> getVS]
        ELSE IF ~vs.readyToUse
        THEN [err |-> StatusErrorf("Unavailable", msgUnavailableVolumeSnapshotNotReadyFmt, <<vsName>>),
              vsi |-> NoVsi, calls |-> getVS]
        ELSE IF vs.boundContentName = <<>>
        THEN [err |-> StatusErrorf("Unavailable", msgUnavailableInvalidVolumeSnapshotStatusFmt, <<vsName>>),
              vsi |-> NoVsi, calls |-> getVS]
        ELSE IF ~vsc.exists
        THEN [err |-> StatusErrorf("Unavailable", msgUnavailableFailedToGetVolumeSnapshotContentFmt,
                                   <<vs.boundContentName, "does not exist">>),
              vsi |-> NoVsi, calls |-> getVSC]
        ELSE IF ~vsc.readyToUse
        THEN [err |-> StatusErrorf("Unavailable", msgUnavailableVolumeSnapshotContentNotReadyFmt,
                                   <<vs.boundContentName>>),
              vsi |-> NoVsi, calls |-> getVSC]
        ELSE IF vsc.snapshotHandle = <<>>
        THEN [err |-> StatusErrorf("Unavailable", msgUnavailableInvalidVolumeSnapshotContentStatusFmt,
                                   <<vs.boundContentName>>),
              vsi |-> NoVsi, calls |-> getVSC]
        ELSE [err |-> Nil,
              vsi |-> [DriverName |-> vsc.driver, SnapshotHandle |-> vsc.snapshotHandle,
                       SourceVolume |-> vs.sourceVolume, VolumeSnapshotClassName |-> vsc.className],
              calls |-> getVSC]

\* convStringByteMapToStringStringMap(data): every value as the string of its
\* bytes (a string is the sequence of its bytes)
convStringByteMapToStringStringMap(data) == [k \in DOMAIN data |-> data[k].bytes]

\* getSnapshotterCredentials(ctx, vsi)
getSnapshotterCredentials(vsi) ==
    LET ref      == VolumeSnapshotClassSecretRef(vsi.VolumeSnapshotClassName)
        secret   == SecretData(ref.name)
        getClass == <<<<"GetVolumeSnapshotClass", vsi.VolumeSnapshotClassName>>>>
        getSec   == getClass \o <<<<"GetSecret", ref.namespace, ref.name>>>>
    IN  IF vsi.VolumeSnapshotClassName = ""
        THEN [err |-> Nil, secrets |-> NoSecrets, calls |-> <<>>]
        ELSE IF ref.name = ""
        THEN [err |-> Nil, secrets |-> NoSecrets, calls |-> getClass]
        ELSE IF ~secret.exists
        THEN [err |-> StatusErrorf("Unavailable", msgUnavailableFailedToGetCredentials,
                                   <<"secret-get-error">>),
              secrets |-> NoSecrets, calls |-> getSec]
        ELSE [err |-> Nil, secrets |-> convStringByteMapToStringStringMap(secret.data), calls |-> getSec]

NoCsiReq == [SnapshotId |-> <<>>, BaseSnapshotId |-> <<>>, TargetSnapshotId |-> <<>>,
             StartingOffset |-> 0, MaxResults |-> 0, Secrets |-> NoSecrets]

\* A variant of convertToCSIGetMetadataAllocatedRequest that goes on after a
\* failed resolution of the snapshot.
convertToCSIGetMetadataAllocatedRequest_IgnoreResolveError(r) ==
    LET info == getVolSnapshotInfo(r.Namespace, r.SnapshotName)
        cred == getSnapshotterCredentials(info.vsi)
    IN  IF info.vsi.DriverName # DriverName
        THEN [err |-> StatusErrorf("InvalidArgument", msgInvalidArgumentSnaphotDriverInvalidFmt,
                                   <<r.SnapshotName, DriverName>>),
              csiReq |-> NoCsiReq, calls |-> info.calls]
        ELSE IF cred.err # Nil
        THEN [err |-> cred.err, csiReq |-> NoCsiReq, calls |-> info.calls \o cred.calls]
        ELSE [err |-> Nil,
              csiReq |-> [SnapshotId |-> info.vsi.SnapshotHandle,
                          BaseSnapshotId |-> <<>>, TargetSnapshotId |-> <<>>,
                          StartingOffset |-> r.StartingOffset,
                          MaxResults |-> r.MaxResults,
                          Secrets |-> cred.secrets],
              calls |-> info.calls \o cred.calls]

\* A variant of convertToCSIGetMetadataAllocatedRequest without the
\* comparison of the drivers.
convertToCSIGetMetadataAllocatedRequest_NoDriverCheck(r) ==
    LET info == getVolSnapshotInfo(r.Namespace, r.SnapshotName)
        cred == getSnapshotterCredentials(info.vsi)
    IN  IF info.err # Nil
        THEN [err |-> info.err, csiReq |-> NoCsiReq, calls |-> info.calls]
        ELSE IF cred.err # Nil
        THEN [err |-> cred.err, csiReq |-> NoCsiReq, calls |-> info.calls \o cred.calls]
        ELSE [err |-> Nil,
              csiReq |-> [SnapshotId |-> info.vsi.SnapshotHandle,
                          BaseSnapshotId |-> <<>>, TargetSnapshotId |-> <<>>,
                          StartingOffset |-> r.StartingOffset,
                          MaxResults |-> r.MaxResults,
                          Secrets |-> cred.secrets],
              calls |-> info.calls \o cred.calls]

\* A variant of convertToCSIGetMetadataAllocatedRequest with the starting
\* offset and the maximum of results exchanged.
convertToCSIGetMetadataAllocatedRequest_SwapRange(r) ==
    LET info == getVolSnapshotInfo(r.Namespace, r.SnapshotName)
        cred == getSnapshotterCredentials(info.vsi)
    IN  IF info.err # Nil
        THEN [err |-> info.err, csiReq |-> NoCsiReq, calls |-> info.calls]
        ELSE IF info.vsi.DriverName # DriverName
        THEN [err |-> StatusErrorf("InvalidArgument", msgInvalidArgumentSnaphotDriverInvalidFmt,
                                   <<r.SnapshotName, DriverName>>),
              csiReq |-> NoCsiReq, calls |-> info.calls]
        ELSE IF cred.err # Nil
        THEN [err |-> cred.err, csiReq |-> NoCsiReq, calls |-> info.calls \o cred.calls]
        ELSE [err |-> Nil,
              csiReq |-> [SnapshotId |-> info.vsi.SnapshotHandle,
                          BaseSnapshotId |-> <<>>, TargetSnapshotId |-> <<>>,
                          StartingOffset |-> r.MaxResults,
                          MaxResults |-> r.StartingOffset,
                          Secrets |-> cred.secrets],
              calls |-> info.calls \o cred.calls]

\* A variant of convertToCSIGetMetadataAllocatedRequest that goes on after a
\* failed fetch of the credentials.
convertToCSIGetMetadataAllocatedRequest_IgnoreCredentialError(r) ==
    LET info == getVolSnapshotInfo(r.Namespace, r.SnapshotName)
        cred == getSnapshotterCredentials(info.vsi)
    IN  IF info.err # Nil
        THEN [err |-> info.err, csiReq |-> NoCsiReq, calls |-> info.calls]
        ELSE IF info.vsi.DriverName # DriverName
        THEN [err |-> StatusErrorf("InvalidArgument", msgInvalidArgumentSnaphotDriverInvalidFmt,
                                   <<r.SnapshotName, DriverName>>),
              csiReq |-> NoCsiReq, calls |-> info.calls]
        ELSE [err |-> Nil,
              csiReq |-> [SnapshotId |-> info.vsi.SnapshotHandle,
                          BaseSnapshotId |-> <<>>, TargetSnapshotId |-> <<>>,
                          StartingOffset |-> r.StartingOffset,
                          MaxResults |-> r.MaxResults,
                          Secrets |-> cred.secrets],
              calls |-> info.calls \o cred.calls]

\* convertToCSIGetMetadataAllocatedRequest(ctx, req)
convertToCSIGetMetadataAllocatedRequest(r) ==
    LET info == getVolSnapshotInfo(r.Namespace, r.SnapshotName)
        cred == getSnapshotterCredentials(info.vsi)
    IN  IF info.err # Nil
        THEN [err |-> info.err, csiReq |-> NoCsiReq, calls |-> info.calls]
        ELSE IF info.vsi.DriverName # DriverName
        THEN [err |-> StatusErrorf("InvalidArgument", msgInvalidArgumentSnaphotDriverInvalidFmt,
                                   <<r.SnapshotName, DriverName>>),
              csiReq |-> NoCsiReq, calls |-> info.calls]
        ELSE IF cred.err # Nil
        THEN [err |-> cred.err, csiReq |-> NoCsiReq, calls |-> info.calls \o cred.calls]
        ELSE [err |-> Nil,
              csiReq |-> [SnapshotId |-> info.vsi.SnapshotHandle,
                          BaseSnapshotId |-> <<>>, TargetSnapshotId |-> <<>>,
                          StartingOffset |-> r.StartingOffset,
                          MaxResults |-> r.MaxResults,
                          Secrets |-> cred.secrets],
              calls |-> info.calls \o cred.calls]

\* A variant of convertToCSIGetMetadataDeltaRequest without the comparison of
\* the source volumes.
convertToCSIGetMetadataDeltaRequest_NoSourceVolumeCheck(r) ==
    LET target == getVolSnapshotInfo(r.Namespace, r.TargetSnapshotName)
        base   == getVolSnapshotInfo(r.Namespace, r.BaseSnapshotName)
        cred   == getSnapshotterCredentials(target.vsi)
    IN  IF target.err # Nil
        THEN [err |-> target.err, csiReq |-> NoCsiReq, calls |-> target.calls]
        ELSE IF base.err # Nil
        THEN [err |-> base.err, csiReq |-> NoCsiReq, calls |-> target.calls \o base.calls]
        ELSE IF target.vsi.DriverName # DriverName
        THEN [err |-> StatusErrorf("InvalidArgument", msgInvalidArgumentSnaphotDriverInvalidFmt,
                                   <<r.TargetSnapshotName, DriverName>>),
              csiReq |-> NoCsiReq, calls |-> target.calls \o base.calls]
        ELSE IF base.vsi.DriverName # DriverName
        THEN [err |-> StatusErrorf("InvalidArgument", msgInvalidArgumentSnaphotDriverInvalidFmt,
                                   <<r.BaseSnapshotName, DriverName>>),
              csiReq |-> NoCsiReq, calls |-> target.calls \o base.calls]
        ELSE IF cred.err # Nil
        THEN [err |-> cred.err, csiReq |-> NoCsiReq, calls |-> target.calls \o base.calls \o cred.calls]
        ELSE [err |-> Nil,
              csiReq |-> [SnapshotId |-> <<>>,
                          BaseSnapshotId |-> base.vsi.SnapshotHandle,
                          TargetSnapshotId |-> target.vsi.SnapshotHandle,
                          StartingOffset |-> r.StartingOffset,
                          MaxResults |-> r.MaxResults,
                          Secrets |-> cred.secrets],
              calls |-> target.calls \o base.calls \o cred.calls]

\* A variant of convertToCSIGetMetadataDeltaRequest that compares the target's
\* driver before it resolves the base.
convertToCSIGetMetadataDeltaRequest_DriverBeforeBase(r) ==
    LET target == getVolSnapshotInfo(r.Namespace, r.TargetSnapshotName)
        base   == getVolSnapshotInfo(r.Namespace, r.BaseSnapshotName)
        cred   == getSnapshotterCredentials(target.vsi)
    IN  IF target.err # Nil
        THEN [err |-> target.err, csiReq |-> NoCsiReq, calls |-> target.calls]
        ELSE IF target.vsi.DriverName # DriverName
        THEN [err |-> StatusErrorf("InvalidArgument", msgInvalidArgumentSnaphotDriverInvalidFmt,
                                   <<r.TargetSnapshotName, DriverName>>),
              csiReq |-> NoCsiReq, calls |-> target.calls]
        ELSE IF base.err # Nil
        THEN [err |-> base.err, csiReq |-> NoCsiReq, calls |-> target.calls \o base.calls]
        ELSE IF base.vsi.DriverName # DriverName
        THEN [err |-> StatusErrorf("InvalidArgument", msgInvalidArgumentSnaphotDriverInvalidFmt,
                                   <<r.BaseSnapshotName, DriverName>>),
              csiReq |-> NoCsiReq, calls |-> target.calls \o base.calls]
        ELSE IF base.vsi.SourceVolume # target.vsi.SourceVolume
        THEN [err |-> StatusErrorf("InvalidArgument", msgInvalidArgumentDiffSnapshotSourceVolumes, <<>>),
              csiReq |-> NoCsiReq, calls |-> target.calls \o base.calls]
        ELSE IF cred.err # Nil
        THEN [err |-> cred.err, csiReq |-> NoCsiReq, calls |-> target.calls \o base.calls \o cred.calls]
        ELSE [err |-> Nil,
              csiReq |-> [SnapshotId |-> <<>>,
                          BaseSnapshotId |-> base.vsi.SnapshotHandle,
                          TargetSnapshotId |-> target.vsi.SnapshotHandle,
                          StartingOffset |-> r.StartingOffset,
                          MaxResults |-> r.MaxResults,
                          Secrets |-> cred.secrets],
              calls |-> target.calls \o base.calls \o cred.calls]

\* convertToCSIGetMetadataDeltaRequest(ctx, req): both snapshots are resolved,
\* the target before the base; then the driver of each is compared with the
\* configured one, the target's before the base's; then their source volumes
\* are compared; then the credentials of the target are fetched.
convertToCSIGetMetadataDeltaRequest(r) ==
    LET target == getVolSnapshotInfo(r.Namespace, r.TargetSnapshotName)
        base   == getVolSnapshotInfo(r.Namespace, r.BaseSnapshotName)
        cred   == getSnapshotterCredentials(target.vsi)
    IN  IF target.err # Nil
        THEN [err |-> target.err, csiReq |-> NoCsiReq, calls |-> target.calls]
        ELSE IF base.err # Nil
        THEN [err |-> base.err, csiReq |-> NoCsiReq, calls |-> target.calls \o base.calls]
        ELSE IF target.vsi.DriverName # DriverName
        THEN [err |-> StatusErrorf("InvalidArgument", msgInvalidArgumentSnaphotDriverInvalidFmt,
                                   <<r.TargetSnapshotName, DriverName>>),
              csiReq |-> NoCsiReq, calls |-> target.calls \o base.calls]
        ELSE IF base.vsi.DriverName # DriverName
        THEN [err |-> StatusErrorf("InvalidArgument", msgInvalidArgumentSnaphotDriverInvalidFmt,
                                   <<r.BaseSnapshotName, DriverName>>),
              csiReq |-> NoCsiReq, calls |-> target.calls \o base.calls]
        ELSE IF base.vsi.SourceVolume # target.vsi.SourceVolume
        THEN [err |-> StatusErrorf("InvalidArgument", msgInvalidArgumentDiffSnapshotSourceVolumes, <<>>),
              csiReq |-> NoCsiReq, calls |-> target.calls \o base.calls]
        ELSE IF cred.err # Nil
        THEN [err |-> cred.err, csiReq |-> NoCsiReq, calls |-> target.calls \o base.calls \o cred.calls]
        ELSE [err |-> Nil,
              csiReq |-> [SnapshotId |-> <<>>,
                          BaseSnapshotId |-> base.vsi.SnapshotHandle,
                          TargetSnapshotId |-> target.vsi.SnapshotHandle,
                          StartingOffset |-> r.StartingOffset,
                          MaxResults |-> r.MaxResults,
                          Secrets |-> cred.secrets],
              calls |-> target.calls \o base.calls \o cred.calls]

----------------------------------------------------------------------------
(* Records of the driver's stream and of the caller's stream. *)

\* csi.BlockMetadataType and api.BlockMetadataType: UNKNOWN = 0,
\* FIXED_LENGTH = 1, VARIABLE_LENGTH = 2.
CsiBlock(offset, size) == [ByteOffset |-> offset, SizeBytes |-> size]

\* The records a driver stream may carry.
CsiResponses ==
    { [BlockMetadataType |-> 1, VolumeCapacityBytes |-> 4096,
       BlockMetadata |-> <<CsiBlock(0, 1024)>>],
      [BlockMetadataType |-> 1, VolumeCapacityBytes |-> 4096,
       BlockMetadata |-> <<CsiBlock(1024, 1024), CsiBlock(2048, 512)>>],
      [BlockMetadataType |-> 2, VolumeCapacityBytes |-> 8192,
       BlockMetadata |-> <<>>] }

NoResp == [BlockMetadataType |-> 0, VolumeCapacityBytes |-> 0, BlockMetadata |-> <<>>]

\* The loop of convertToGetMetadataAllocatedResponse: append a copy of each
\* block of `blocks` to `out`.
RECURSIVE appendBlockMetadata(_, _)
appendBlockMetadata(out, blocks) ==
    IF blocks = <<>>
    THEN out
    ELSE appendBlockMetadata(
             Append(out, [ByteOffset |-> Head(blocks).ByteOffset, SizeBytes |-> Head(blocks).SizeBytes]),
             Tail(blocks))

\* A variant of convertToGetMetadataAllocatedResponse whose loop stops one
\* block early.
convertToGetMetadataAllocatedResponse_DropLast(resp) ==
    [BlockMetadataType   |-> resp.BlockMetadataType,
     VolumeCapacityBytes |-> resp.VolumeCapacityBytes,
     BlockMetadata       |-> appendBlockMetadata(<<>>,
                                 SubSeq(resp.BlockMetadata, 1, Len(resp.BlockMetadata) - 1))]

\* convertToGetMetadataAllocatedResponse(csiResp)
convertToGetMetadataAllocatedResponse(resp) ==
    [BlockMetadataType   |-> resp.BlockMetadataType,
     VolumeCapacityBytes |-> resp.VolumeCapacityBytes,
     BlockMetadata       |-> appendBlockMetadata(<<>>, resp.BlockMetadata)]

\* convertToGetMetadataDeltaResponse(csiResp)
convertToGetMetadataDeltaResponse(resp) ==
    [BlockMetadataType   |-> resp.BlockMetadataType,
     VolumeCapacityBytes |-> resp.VolumeCapacityBytes,
     BlockMetadata       |-> appendBlockMetadata(<<>>, resp.BlockMetadata)]

----------------------------------------------------------------------------
(* The handler as a state machine.  The handler blocks at every call to the  *)
(* cluster, at the driver stream's Recv and at the caller stream's Send; the *)
(* readiness flag may change at any of these points.  A cancellation by the   *)
(* caller is modelled while the handler forwards the stream.                 *)

NoResult == [kind |-> "none", code |-> "", msg |-> <<>>]

\* The iterator before it is made.
NoIter ==
    [TokenExpirySecs |-> 0, recordNum |-> 0, saNamespace |-> "", saName |-> "",
     csiDriver |-> "", smsCR |-> <<>>, securityToken |-> <<>>,
     ctx |-> "caller", childDone |-> FALSE, emitted |-> <<>>]

\* What the driver stream's Recv may return besides a record.
RecvErrors ==
    { ioEOF, ioErrUnexpectedEOF,
      StatusErrorf("Aborted", "is a status error", <<>>),
      StatusErrorf("ResourceExhausted", "too many requests", <<>>) }

\* What the caller stream's Send may return besides nil.
SendErrors ==
    { PlainError("K8s stream send error"),
      StatusErrorf("Canceled", "context canceled", <<>>) }

\* What opening the driver's streaming call may return besides a stream.
OpenErrors == { StatusErrorf("Unavailable", "connection error", <<>>) }

Init ==
    /\ kind = "none"
    /\ req = NoReq
    /\ pc = "idle"
    /\ ready = FALSE
    /\ lastWrite = "none"
    /\ cancelled = FALSE
    /\ calls = <<>>
    /\ csiReq = NoCsiReq
    /\ csiResp = NoResp
    /\ received = <<>>
    /\ sent = <<>>
    /\ recvEnd = NoResult
    /\ sendErr = NoResult
    /\ result = NoResult
    /\ iter = NoIter

\* The status gRPC reports for a call whose context was cancelled.
ctxCanceled == StatusErrorf("Canceled", "context canceled", <<>>)

\* A variant of getMetadataAllocatedContextWithLogger that starts from a
\* context of its own.
getMetadataAllocatedContextWithLogger_Background(r, streamCtx) ==
    [done   |-> FALSE,
     logger |-> <<"GetMetadataAllocated", r.Namespace, r.SnapshotName, r.StartingOffset, r.MaxResults>>]

\* getMetadataAllocatedContextWithLogger(req, stream): the context of the
\* caller's stream with a logger added; it is done when the stream's is.
getMetadataAllocatedContextWithLogger(r, streamCtx) ==
    [done   |-> streamCtx.done,
     logger |-> <<"GetMetadataAllocated", r.Namespace, r.SnapshotName, r.StartingOffset, r.MaxResults>>]

getMetadataDeltaContextWithLogger(r, streamCtx) ==
    [done   |-> streamCtx.done,
     logger |-> <<"GetMetadataDelta", r.Namespace, r.BaseSnapshotName, r.TargetSnapshotName,
                  r.StartingOffset, r.MaxResults>>]

\* ctx, as the handler of `k` derives it
handlerContext(k, r, streamCtx) ==
    IF k = "Allocated"
    THEN getMetadataAllocatedContextWithLogger(r, streamCtx)
    ELSE getMetadataDeltaContextWithLogger(r, streamCtx)

\* return err
Return(err) ==
    /\ pc' = "done"
    /\ result' = err

\* A variant of StepAfter with the readiness gate ahead of the authentication.
StepAfter_GateFirst(step) ==
    CASE step = "validate"     -> "ready"
      [] step = "ready"        -> "authenticate"
      [] step = "authenticate" -> "convert"
      [] step = "convert"      -> "open"
      [] step = "open"         -> "recv"

\* The order of the handler's steps: the step that follows `step` when it
\* did not fail.
StepAfter(step) ==
    CASE step = "validate"     -> "authenticate"
      [] step = "authenticate" -> "ready"
      [] step = "ready"        -> "convert"
      [] step = "convert"      -> "open"
      [] step = "open"         -> "recv"

\* validate<RPC>Request, as the handler of `k` calls it
validateRequest(k, r) ==
    IF k = "Allocated"
    THEN validateGetMetadataAllocatedRequest(r)
    ELSE validateGetMetadataDeltaRequest(r)

\* A call of GetMetadataAllocated or GetMetadataDelta arrives; the handler
\* validates the request.
StepValidate ==
    /\ pc = "idle"
    /\ \E k \in {"Allocated", "Delta"} :
         \E r \in (IF k = "Allocated" THEN AllocatedRequests ELSE DeltaRequests) :
            /\ kind' = k
            /\ req' = r
            /\ IF validateRequest(k, r) # Nil
               THEN Return(validateRequest(k, r))
               ELSE pc' = StepAfter("validate") /\ result' = NoResult
    /\ UNCHANGED <<iter, ready, lastWrite, cancelled, calls, csiReq, csiResp, received, sent, recvEnd, sendErr>>

\* A variant of StepAuthenticate that does not return on an error.
StepAuthenticate_IgnoreError ==
    /\ pc = "authenticate"
    /\ LET auth == authenticateAndAuthorize(req.SecurityToken, req.Namespace)
       IN  /\ calls' = calls \o auth.calls
           /\ pc' = StepAfter("authenticate") /\ result' = NoResult
    /\ UNCHANGED <<iter, kind, req, ready, lastWrite, cancelled, csiReq, csiResp, received, sent, recvEnd, sendErr>>

\* s.authenticateAndAuthorize(ctx, req.SecurityToken, req.Namespace)
StepAuthenticate ==
    /\ pc = "authenticate"
    /\ LET auth == authenticateAndAuthorize(req.SecurityToken, req.Namespace)
       IN  /\ calls' = calls \o auth.calls
           /\ IF auth.err # Nil
              THEN Return(auth.err)
              ELSE pc' = StepAfter("authenticate") /\ result' = NoResult
    /\ UNCHANGED <<iter, kind, req, ready, lastWrite, cancelled, csiReq, csiResp, received, sent, recvEnd, sendErr>>

\* A variant of StepIsCSIDriverReady that does not return on an error.
StepIsCSIDriverReady_IgnoreError ==
    /\ pc = "ready"
    /\ calls' = Append(calls, <<"IsCSIDriverReady", ready>>)
    /\ pc' = StepAfter("ready") /\ result' = NoResult
    /\ UNCHANGED <<iter, kind, req, ready, lastWrite, cancelled, csiReq, csiResp, received, sent, recvEnd, sendErr>>

\* s.isCSIDriverReady(ctx)
StepIsCSIDriverReady ==
    /\ pc = "ready"
    /\ calls' = Append(calls, <<"IsCSIDriverReady", ready>>)
    /\ IF isCSIDriverReady(ready) # Nil
       THEN Return(isCSIDriverReady(ready))
       ELSE pc' = StepAfter("ready") /\ result' = NoResult
    /\ UNCHANGED <<iter, kind, req, ready, lastWrite, cancelled, csiReq, csiResp, received, sent, recvEnd, sendErr>>

\* convertToCSI<RPC>Request, as the handler of `k` calls it
convertToCSIRequest(k, r) ==
    IF k = "Allocated"
    THEN convertToCSIGetMetadataAllocatedRequest(r)
    ELSE convertToCSIGetMetadataDeltaRequest(r)

\* s.convertToCSIGetMetadataAllocatedRequest(ctx, req)
StepConvert ==
    /\ pc = "convert"
    /\ LET conv == convertToCSIRequest(kind, req)
       IN  /\ calls' = calls \o conv.calls
           /\ csiReq' = conv.csiReq
           /\ IF conv.err # Nil
              THEN Return(conv.err)
              ELSE pc' = StepAfter("convert") /\ result' = NoResult
    /\ UNCHANGED <<iter, kind, req, ready, lastWrite, cancelled, csiResp, received, sent, recvEnd, sendErr>>

\* csi.NewSnapshotMetadataClient(s.csiConnection()).GetMetadataAllocated(ctx, csiReq)
StepOpenStream ==
    /\ pc = "open"
    /\ calls' = Append(calls, <<"CSI.GetMetadata" \o kind>>)
    /\ \/ pc' = StepAfter("open") /\ result' = NoResult
       \/ \E err \in OpenErrors : Return(err)
    /\ UNCHANGED <<iter, kind, req, ready, lastWrite, cancelled, csiReq, csiResp, received, sent, recvEnd, sendErr>>

\* Variants of recvReturn: one takes an unexpected end of the stream for its
\* end, one wraps every error, one returns every error as it is.
recvReturn_UnexpectedEOFIsEOF(err) ==
    IF err = ioEOF \/ err = ioErrUnexpectedEOF
    THEN Nil
    ELSE statusPassOrWrapError(err, "Internal", msgInternalFailedCSIDriverResponseFmt, ErrorText(err))

recvReturn_AlwaysWrap(err) ==
    IF err = ioEOF
    THEN Nil
    ELSE StatusErrorf("Internal", msgInternalFailedCSIDriverResponseFmt, ErrorText(err))

recvReturn_NoWrap(err) ==
    IF err = ioEOF THEN Nil ELSE err

\* What the loop returns when csiStream.Recv() returned the error `err`.
recvReturn(err) ==
    IF err = ioEOF
    THEN Nil
    ELSE statusPassOrWrapError(err, "Internal", msgInternalFailedCSIDriverResponseFmt, ErrorText(err))

\* A variant of sendReturn with the message of the driver's failure.
sendReturn_DriverMessage(err) ==
    statusPassOrWrapError(err, "Internal", msgInternalFailedCSIDriverResponseFmt, ErrorText(err))

\* What the loop returns when clientStream.Send() returned the error `err`.
sendReturn(err) ==
    statusPassOrWrapError(err, "Internal", msgInternalFailedtoSendResponseFmt, ErrorText(err))

\* A variant of StepRecv that asks the driver for the next record while the
\* send of the last one is still pending.
StepRecv_Ahead ==
    /\ pc \in {"recv", "send"}
    /\ \/ \E resp \in CsiResponses :
            /\ Len(received) < MaxRecords
            /\ received' = Append(received, resp)
            /\ csiResp' = resp
            /\ pc' = "send"
            /\ UNCHANGED <<recvEnd, result>>
       \/ \E err \in RecvErrors :
            /\ recvEnd' = err
            /\ Return(recvReturn(err))
            /\ UNCHANGED <<received, csiResp>>
    /\ UNCHANGED <<iter, kind, req, ready, lastWrite, cancelled, calls, csiReq, sent, sendErr>>

\* The loop of streamGetMetadataAllocatedResponse up to the conversion:
\* csiStream.Recv() and the handling of its error.
StepRecv ==
    /\ pc = "recv"
    /\ \/ \E resp \in CsiResponses :
            /\ Len(received) < MaxRecords
            /\ received' = Append(received, resp)
            /\ csiResp' = resp
            /\ pc' = "send"
            /\ UNCHANGED <<recvEnd, result>>
       \/ \E err \in RecvErrors :
            /\ recvEnd' = err
            /\ Return(recvReturn(err))
            /\ UNCHANGED <<received, csiResp>>
    /\ UNCHANGED <<iter, kind, req, ready, lastWrite, cancelled, calls, csiReq, sent, sendErr>>

\* csiStream.Recv() returns because the context the driver stream was opened
\* with is done.
StepRecvCancelled ==
    /\ pc = "recv"
    /\ handlerContext(kind, req, [done |-> cancelled]).done
    /\ recvEnd' = ctxCanceled
    /\ Return(recvReturn(ctxCanceled))
    /\ UNCHANGED <<iter, kind, req, ready, lastWrite, cancelled, calls, csiReq, csiResp, received, sent, sendErr>>

\* convertTo<RPC>Response, as the loop of `k` calls it
convertToResponse(k, resp) ==
    IF k = "Allocated"
    THEN convertToGetMetadataAllocatedResponse(resp)
    ELSE convertToGetMetadataDeltaResponse(resp)

\* A variant of StepSend that goes on with the next record after a failed
\* send.
StepSend_GoesOn ==
    /\ pc = "send"
    /\ LET clientResp == convertToResponse(kind, csiResp)
       IN  \/ /\ sent' = Append(sent, clientResp)
              /\ pc' = "recv"
              /\ UNCHANGED <<sendErr, result>>
           \/ \E err \in SendErrors :
                /\ sendErr' = err
                /\ pc' = "recv"
                /\ UNCHANGED <<sent, result>>
    /\ csiResp' = NoResp
    /\ UNCHANGED <<iter, kind, req, ready, lastWrite, cancelled, calls, csiReq, received, recvEnd>>

\* A variant of StepSend that reads the readiness flag before each send.
StepSend_ReadsFlag ==
    /\ pc = "send"
    /\ LET clientResp == convertToResponse(kind, csiResp)
       IN  IF isCSIDriverReady(ready) # Nil
           THEN /\ Return(isCSIDriverReady(ready))
                /\ UNCHANGED <<sent, sendErr>>
           ELSE \/ /\ sent' = Append(sent, clientResp)
                   /\ pc' = "recv"
                   /\ UNCHANGED <<sendErr, result>>
                \/ \E err \in SendErrors :
                     /\ sendErr' = err
                     /\ Return(sendReturn(err))
                     /\ UNCHANGED sent
    /\ csiResp' = NoResp
    /\ UNCHANGED <<iter, kind, req, ready, lastWrite, cancelled, calls, csiReq, received, recvEnd>>

\* The rest of the loop: the conversion and clientStream.Send(clientResp).
StepSend ==
    /\ pc = "send"
    /\ LET clientResp == convertToResponse(kind, csiResp)
       IN  \/ /\ sent' = Append(sent, clientResp)
              /\ pc' = "recv"
              /\ UNCHANGED <<sendErr, result>>
           \/ \E err \in SendErrors :
                /\ sendErr' = err
                /\ Return(sendReturn(err))
                /\ UNCHANGED sent
    /\ csiResp' = NoResp
    /\ UNCHANGED <<iter, kind, req, ready, lastWrite, cancelled, calls, csiReq, received, recvEnd>>

\* The RPC is over: the invocation's state is dropped.
Finish ==
    /\ pc = "done"
    /\ kind' = "none"
    /\ req' = NoReq
    /\ pc' = "idle"
    /\ calls' = <<>>
    /\ csiReq' = NoCsiReq
    /\ csiResp' = NoResp
    /\ received' = <<>>
    /\ sent' = <<>>
    /\ recvEnd' = NoResult
    /\ sendErr' = NoResult
    /\ result' = NoResult
    /\ cancelled' = FALSE
    /\ UNCHANGED <<iter, ready, lastWrite>>

\* A variant of CSIDriverIsNotReady that sets the flag.
CSIDriverIsNotReady_SetsFlag ==
    /\ ready' = TRUE
    /\ lastWrite' = "CSIDriverIsNotReady"
    /\ UNCHANGED <<iter, kind, req, pc, cancelled, calls, csiReq, csiResp, received, sent, recvEnd, sendErr, result>>

\* The readiness flag's writers, called by the probe of the driver's
\* connection and by the server's owner, from any thread at any time; the
\* flag is read and written under its mutex.
CSIDriverIsReady ==
    /\ ready' = TRUE
    /\ lastWrite' = "CSIDriverIsReady"
    /\ UNCHANGED <<iter, kind, req, pc, cancelled, calls, csiReq, csiResp, received, sent, recvEnd, sendErr, result>>

CSIDriverIsNotReady ==
    /\ ready' = FALSE
    /\ lastWrite' = "CSIDriverIsNotReady"
    /\ UNCHANGED <<iter, kind, req, pc, cancelled, calls, csiReq, csiResp, received, sent, recvEnd, sendErr, result>>

\* The caller cancels its call while the handler forwards the stream: the
\* context of the caller's stream is done from then on.
CallerCancels ==
    /\ pc \in {"recv", "send"}
    /\ ~cancelled
    /\ cancelled' = TRUE
    /\ UNCHANGED <<iter, kind, req, pc, ready, lastWrite, calls, csiReq, csiResp, received, sent,
                   recvEnd, sendErr, result>>

Next ==
    \/ StepValidate
    \/ StepAuthenticate
    \/ StepIsCSIDriverReady
    \/ StepConvert
    \/ StepOpenStream
    \/ StepRecv
    \/ StepRecvCancelled
    \/ StepSend
    \/ Finish
    \/ CSIDriverIsReady
    \/ CSIDriverIsNotReady
    \/ CallerCancels

Spec == Init /\ [][Next]_vars

\* Once the context of the caller's stream is done, gRPC lets neither a Recv
\* on the driver stream opened with a context derived from it nor a Send on
\* the caller's stream block.
SpecCancel ==
    /\ Init
    /\ [][Next]_vars
    /\ WF_vars(StepRecvCancelled)
    /\ WF_vars(cancelled /\ StepSend)

----------------------------------------------------------------------------
(* Request validation on its own: every request of the domain, and the nil   *)
(* request, is handed to the validation function of its RPC.                 *)

InitValidate ==
    /\ kind \in {"Allocated", "Delta"}
    /\ req \in (IF kind = "Allocated" THEN AllocatedRequests ELSE DeltaRequests) \cup {NoReq}
    /\ pc = "validate"
    /\ ready = FALSE
    /\ lastWrite = "none"
    /\ cancelled = FALSE
    /\ calls = <<>>
    /\ csiReq = NoCsiReq
    /\ csiResp = NoResp
    /\ received = <<>>
    /\ sent = <<>>
    /\ recvEnd = NoResult
    /\ sendErr = NoResult
    /\ result = NoResult
    /\ iter = NoIter

CallValidate ==
    /\ pc = "validate"
    /\ result' = validateRequest(kind, req)
    /\ pc' = "validated"
    /\ UNCHANGED <<iter, kind, req, ready, lastWrite, cancelled, calls, csiReq, csiResp, received, sent, recvEnd, sendErr>>

NextValidate == CallValidate

SpecValidate == InitValidate /\ [][NextValidate]_vars

----------------------------------------------------------------------------
(* The client iterator (package iterator): GetSnapshotMetadata validates its *)
(* arguments, makes an Iterator of them and runs it.  An error made by       *)
(* fmt.Errorf is the sequence of the texts of its parts; it wraps the error  *)
(* whose text is one of them.                                                *)

ErrInvalidArgs == PlainError("invalid argument")
DefaultTokenExpirySeconds == 600

\* fmt.Errorf("%w" + text, wrapped)
ErrorfWrapFirst(wrapped, text) == [kind |-> "error", code |-> "", msg |-> wrapped.msg \o <<text>>]

\* fmt.Errorf(text + "%w", wrapped)
ErrorfWrapLast(text, wrapped) == [kind |-> "error", code |-> "", msg |-> <<text>> \o wrapped.msg]

\* errors.Is(err, target), for a target made by errors.New
errorsIs(err, target) ==
    /\ err.kind = "error"
    /\ \E i \in 1..Len(err.msg) : err.msg[i] = target.msg[1]

\* The arguments GetSnapshotMetadata may be given.  Emitter tells whether an
\* emitter is set; the clients are those BuildClients made, which
\* Clients.Validate accepts.
IteratorPrevSnapshotNames == {"", "snap-0"}
IteratorCSIDrivers == {"", "driver-Y"}

IteratorArgs ==
    { [Emitter |-> e, Namespace |-> n, SnapshotName |-> s, PrevSnapshotName |-> p,
       StartingOffset |-> o, MaxResults |-> m, CSIDriver |-> d,
       SANamespace |-> sn, SAName |-> sa, TokenExpirySecs |-> t] :
         e \in BOOLEAN, n \in {"", "test-ns"}, s \in {"", "snap-1"},
         p \in IteratorPrevSnapshotNames, d \in IteratorCSIDrivers,
         o \in {-1, 0, 25}, m \in {-1, 0, 1}, t \in {-1, 0, 60},
         sn \in {"", "sa-ns"}, sa \in {"", "sa"} }

\* A variant of Args.Validate without the case of a SANamespace given with no
\* SAName.
ArgsValidate_NoSANameCase(a) ==
    IF ~a.Emitter
    THEN ErrorfWrapFirst(ErrInvalidArgs, ": missing Emitter")
    ELSE IF a.Namespace = ""
    THEN ErrorfWrapFirst(ErrInvalidArgs, ": missing Namespace")
    ELSE IF a.SnapshotName = ""
    THEN ErrorfWrapFirst(ErrInvalidArgs, ": missing SnapshotName")
    ELSE IF a.TokenExpirySecs < 0
    THEN ErrorfWrapFirst(ErrInvalidArgs, ": invalid TokenExpirySecs")
    ELSE IF a.MaxResults < 0
    THEN ErrorfWrapFirst(ErrInvalidArgs, ": invalid MaxResults")
    ELSE IF a.SANamespace = "" /\ a.SAName # ""
    THEN ErrorfWrapFirst(ErrInvalidArgs, ": SAName provided but SANamespace missing")
    ELSE Nil

\* A variant of Args.Validate that tests MaxResults before TokenExpirySecs.
ArgsValidate_MaxResultsFirst(a) ==
    IF ~a.Emitter
    THEN ErrorfWrapFirst(ErrInvalidArgs, ": missing Emitter")
    ELSE IF a.Namespace = ""
    THEN ErrorfWrapFirst(ErrInvalidArgs, ": missing Namespace")
    ELSE IF a.SnapshotName = ""
    THEN ErrorfWrapFirst(ErrInvalidArgs, ": missing SnapshotName")
    ELSE IF a.MaxResults < 0
    THEN ErrorfWrapFirst(ErrInvalidArgs, ": invalid MaxResults")
    ELSE IF a.TokenExpirySecs < 0
    THEN ErrorfWrapFirst(ErrInvalidArgs, ": invalid TokenExpirySecs")
    ELSE IF a.SANamespace = "" /\ a.SAName # ""
    THEN ErrorfWrapFirst(ErrInvalidArgs, ": SAName provided but SANamespace missing")
    ELSE IF a.SANamespace # "" /\ a.SAName = ""
    THEN ErrorfWrapFirst(ErrInvalidArgs, ": SANamespace provided but SAName missing")
    ELSE Nil

\* func (a Args) Validate() error
ArgsValidate(a) ==
    IF ~a.Emitter
    THEN ErrorfWrapFirst(ErrInvalidArgs, ": missing Emitter")
    ELSE IF a.Namespace = ""
    THEN ErrorfWrapFirst(ErrInvalidArgs, ": missing Namespace")
    ELSE IF a.SnapshotName = ""
    THEN ErrorfWrapFirst(ErrInvalidArgs, ": missing SnapshotName")
    ELSE IF a.TokenExpirySecs < 0
    THEN ErrorfWrapFirst(ErrInvalidArgs, ": invalid TokenExpirySecs")
    ELSE IF a.MaxResults < 0
    THEN ErrorfWrapFirst(ErrInvalidArgs, ": invalid MaxResults")
    ELSE IF a.SANamespace = "" /\ a.SAName # ""
    THEN ErrorfWrapFirst(ErrInvalidArgs, ": SAName provided but SANamespace missing")
    ELSE IF a.SANamespace # "" /\ a.SAName = ""
    THEN ErrorfWrapFirst(ErrInvalidArgs, ": SANamespace provided but SAName missing")
    ELSE Nil

\* A variant of NewIterator that keeps the token lifetime it is given.
NewIterator_KeepExpiry(a) ==
    [NoIter EXCEPT
       !.TokenExpirySecs = a.TokenExpirySecs,
       !.saNamespace = a.SANamespace,
       !.saName      = a.SAName,
       !.csiDriver   = a.CSIDriver]

\* NewIterator(args): the iterator's own state; its arguments stay in req.
\* The locals of Run (saNamespace, saName, csiDriver) start as the optional
\* fields of the arguments.
NewIterator(a) ==
    [NoIter EXCEPT
       !.TokenExpirySecs = IF a.TokenExpirySecs = 0 THEN DefaultTokenExpirySeconds
                           ELSE a.TokenExpirySecs,
       !.saNamespace = a.SANamespace,
       !.saName      = a.SAName,
       !.csiDriver   = a.CSIDriver]

\* What SelfSubjectReviews().Create may answer: an error or a user name.
SelfSubjectReviews ==
    { [err |-> PlainError("self subject review error"), username |-> <<>>],
      [err |-> Nil, username |-> UserName(<<"system", "serviceaccount", "ns-a", "sa-b">>)],
      [err |-> Nil, username |-> UserName(<<"system", "serviceaccount", "ns">>)],
      [err |-> Nil, username |-> UserName(<<"system", "serviceaccount", "a", "b", "c">>)],
      [err |-> Nil, username |-> UserName(<<"system", "admin">>)] }

\* A field of a split user name as a string.
FieldString(f) == IF f = <<>> THEN "" ELSE f[1]

\* A variant of getDefaultServiceAccount that accepts a user name of four
\* fields or more.
getDefaultServiceAccount_FourOrMore(ssr) ==
    LET fields == SplitColon(ssr.username) IN
    IF ssr.err # Nil
    THEN [namespace |-> "", name |-> "",
          err |-> ErrorfWrapLast("SelfSubjectReviews.Create(): ", ssr.err)]
    ELSE IF HasPrefix(ssr.username, K8sServiceAccountUserNamePrefix) /\ Len(fields) >= 4
    THEN [namespace |-> FieldString(fields[3]), name |-> FieldString(fields[4]), err |-> Nil]
    ELSE [namespace |-> "", name |-> "",
          err |-> ErrorfWrapFirst(ErrInvalidArgs,
                     ": ServiceAccount unspecified and default cannot be determined")]

\* A variant of getDefaultServiceAccount that takes the name for the namespace
\* and the namespace for the name.
getDefaultServiceAccount_Exchanged(ssr) ==
    LET fields == SplitColon(ssr.username) IN
    IF ssr.err # Nil
    THEN [namespace |-> "", name |-> "",
          err |-> ErrorfWrapLast("SelfSubjectReviews.Create(): ", ssr.err)]
    ELSE IF HasPrefix(ssr.username, K8sServiceAccountUserNamePrefix) /\ Len(fields) = 4
    THEN [namespace |-> FieldString(fields[4]), name |-> FieldString(fields[3]), err |-> Nil]
    ELSE [namespace |-> "", name |-> "",
          err |-> ErrorfWrapFirst(ErrInvalidArgs,
                     ": ServiceAccount unspecified and default cannot be determined")]

\* getDefaultServiceAccount(ctx), given the answer of the review
getDefaultServiceAccount(ssr) ==
    LET fields == SplitColon(ssr.username) IN
    IF ssr.err # Nil
    THEN [namespace |-> "", name |-> "",
          err |-> ErrorfWrapLast("SelfSubjectReviews.Create(): ", ssr.err)]
    ELSE IF HasPrefix(ssr.username, K8sServiceAccountUserNamePrefix) /\ Len(fields) = 4
    THEN [namespace |-> FieldString(fields[3]), name |-> FieldString(fields[4]), err |-> Nil]
    ELSE [namespace |-> "", name |-> "",
          err |-> ErrorfWrapFirst(ErrInvalidArgs,
                     ": ServiceAccount unspecified and default cannot be determined")]

InitIterator ==
    /\ kind = "Iterator"
    /\ req \in IteratorArgs
    /\ pc = "GetSnapshotMetadata"
    /\ ready = FALSE
    /\ lastWrite = "none"
    /\ cancelled = FALSE
    /\ calls = <<>>
    /\ csiReq = NoCsiReq
    /\ csiResp = NoResp
    /\ received = <<>>
    /\ sent = <<>>
    /\ recvEnd = NoResult
    /\ sendErr = NoResult
    /\ result = NoResult
    /\ iter = NoIter

\* GetSnapshotMetadata(ctx, args) up to the call of Run
GetSnapshotMetadata ==
    /\ pc = "GetSnapshotMetadata"
    /\ IF ArgsValidate(req) # Nil
       THEN /\ result' = ArgsValidate(req)
            /\ pc' = "returned"
            /\ UNCHANGED iter
       ELSE /\ iter' = NewIterator(req)
            /\ pc' = "Run"
            /\ UNCHANGED result
    /\ UNCHANGED <<kind, req, ready, lastWrite, cancelled, calls, csiReq, csiResp, received, sent,
                   recvEnd, sendErr>>

\* Run, its first step: the service account of the token, the given one or
\* that of the caller itself.
RunGetDefaultServiceAccount ==
    /\ pc = "Run"
    /\ IF iter.saName = ""
       THEN \E ssr \in SelfSubjectReviews :
              LET sa == getDefaultServiceAccount(ssr) IN
              /\ calls' = Append(calls, <<"SelfSubjectReviews.Create", ssr.username, ssr.err>>)
              /\ IF sa.err # Nil
                 THEN /\ result' = sa.err
                      /\ pc' = "returned"
                      /\ UNCHANGED iter
                 ELSE /\ iter' = [iter EXCEPT !.saNamespace = sa.namespace, !.saName = sa.name]
                      /\ pc' = "getCSIDriver"
                      /\ UNCHANGED result
       ELSE /\ pc' = "getCSIDriver"
            /\ UNCHANGED <<calls, result, iter>>
    /\ UNCHANGED <<kind, req, ready, lastWrite, cancelled, csiReq, csiResp, received, sent,
                   recvEnd, sendErr>>

\* fmt.Errorf(format + "%w", args..., err): the text of err is part of the
\* message and err is wrapped.
ErrorfW(format, args, err) ==
    [kind |-> "error", code |-> "", msg |-> (<<format>> \o args) \o ErrorText(err)]

\* fmt.Errorf(format + "%v", args..., err): the text of err is one argument of
\* the message and nothing is wrapped.
ErrorfV(format, args, err) ==
    [kind |-> "error", code |-> "", msg |-> (<<format>> \o args) \o <<ErrorText(err)>>]

ErrCACert == PlainError("failed to add the SnapshotMetadataService CR CA certificate")
ErrCancelled == PlainError("enumeration cancelled")

\* What VolumeSnapshots(namespace).Get(name) may answer: an error, or a
\* snapshot without status, without bound content or bound to a content.
IteratorVolumeSnapshots(namespace, name) ==
    { [err |-> PlainError("volumesnapshot not found"), Namespace |-> "", Name |-> "",
       hasStatus |-> FALSE, BoundVolumeSnapshotContentName |-> <<>>],
      [err |-> Nil, Namespace |-> namespace, Name |-> name,
       hasStatus |-> FALSE, BoundVolumeSnapshotContentName |-> <<>>],
      [err |-> Nil, Namespace |-> namespace, Name |-> name,
       hasStatus |-> TRUE, BoundVolumeSnapshotContentName |-> <<>>],
      [err |-> Nil, Namespace |-> namespace, Name |-> name,
       hasStatus |-> TRUE, BoundVolumeSnapshotContentName |-> <<ContentNameFromSnapshot(name)>>] }

\* What VolumeSnapshotContents().Get may answer: an error or a content of
\* some driver.
IteratorVolumeSnapshotContents ==
    { [err |-> PlainError("volumesnapshotcontent not found"), Driver |-> ""],
      [err |-> Nil, Driver |-> DriverName],
      [err |-> Nil, Driver |-> "driver-bad-ca"],
      [err |-> Nil, Driver |-> "driver-unknown"] }

PEMCertificate == "-----BEGIN CERTIFICATE-----"

\* SnapshotMetadataServices().Get(csiDriver): the record of the driver in the
\* cluster, if it has one.
SnapshotMetadataService(csiDriver) ==
    CASE csiDriver = DriverName ->
           [err |-> Nil, Audience |-> Audience, CACert |-> PEMCertificate,
            Address |-> "sms-driver-X:6443"]
      [] csiDriver = "driver-Y" ->
           [err |-> Nil, Audience |-> "audience-Y", CACert |-> PEMCertificate,
            Address |-> "sms-driver-Y:6443"]
      [] csiDriver = "driver-bad-ca" ->
           [err |-> Nil, Audience |-> "audience-bad-ca", CACert |-> "not a certificate",
            Address |-> "sms-driver-bad-ca:6443"]
      [] OTHER ->
           [err |-> PlainError("snapshotmetadataservice not found"), Audience |-> "",
            CACert |-> "", Address |-> ""]

\* certPool.AppendCertsFromPEM(caCert)
AppendCertsFromPEM(caCert) == caCert = PEMCertificate

\* A variant of getCSIDriverFromPrimarySnapshot that reads the snapshot named
\* by PrevSnapshotName.
getCSIDriverFromPrimarySnapshot_PrevSnapshot(a, vs, vsc) ==
    LET getVS == <<"VolumeSnapshots.Get", a.Namespace, a.PrevSnapshotName, vs>> IN
    IF vs.err # Nil
    THEN [driver |-> "", calls |-> <<getVS>>,
          err |-> ErrorfW("VolumeSnapshots.Get(%s/%s): ", <<a.Namespace, a.PrevSnapshotName>>, vs.err)]
    ELSE IF ~vs.hasStatus \/ vs.BoundVolumeSnapshotContentName = <<>>
    THEN [driver |-> "", calls |-> <<getVS>>,
          err |-> [kind |-> "error", code |-> "",
                   msg |-> <<"VolumeSnapshot(%s/%s) has no bound VolumeSnapshotContent",
                             vs.Namespace, vs.Name>>]]
    ELSE LET content == vs.BoundVolumeSnapshotContentName[1]
             getVSC == <<"VolumeSnapshotContents.Get", content, vsc>>
         IN  IF vsc.err # Nil
             THEN [driver |-> "", calls |-> <<getVS, getVSC>>,
                   err |-> ErrorfW("VolumeSnapshotContents.Get(%s) for VolumeSnapshot(%s/%s): ",
                                   <<content, vs.Namespace, vs.Name>>, vsc.err)]
             ELSE [driver |-> vsc.Driver, calls |-> <<getVS, getVSC>>, err |-> Nil]

\* getCSIDriverFromPrimarySnapshot(ctx), given the answers of the cluster; each
\* read is logged with its answer
getCSIDriverFromPrimarySnapshot(a, vs, vsc) ==
    LET getVS == <<"VolumeSnapshots.Get", a.Namespace, a.SnapshotName, vs>> IN
    IF vs.err # Nil
    THEN [driver |-> "", calls |-> <<getVS>>,
          err |-> ErrorfW("VolumeSnapshots.Get(%s/%s): ", <<a.Namespace, a.SnapshotName>>, vs.err)]
    ELSE IF ~vs.hasStatus \/ vs.BoundVolumeSnapshotContentName = <<>>
    THEN [driver |-> "", calls |-> <<getVS>>,
          err |-> [kind |-> "error", code |-> "",
                   msg |-> <<"VolumeSnapshot(%s/%s) has no bound VolumeSnapshotContent",
                             vs.Namespace, vs.Name>>]]
    ELSE LET content == vs.BoundVolumeSnapshotContentName[1]
             getVSC == <<"VolumeSnapshotContents.Get", content, vsc>>
         IN  IF vsc.err # Nil
             THEN [driver |-> "", calls |-> <<getVS, getVSC>>,
                   err |-> ErrorfW("VolumeSnapshotContents.Get(%s) for VolumeSnapshot(%s/%s): ",
                                   <<content, vs.Namespace, vs.Name>>, vsc.err)]
             ELSE [driver |-> vsc.Driver, calls |-> <<getVS, getVSC>>, err |-> Nil]

\* getSnapshotMetadataServiceCR(ctx, csiDriver)
getSnapshotMetadataServiceCR(csiDriver) ==
    LET sms == SnapshotMetadataService(csiDriver) IN
    IF sms.err # Nil
    THEN [sms |-> <<>>, err |-> ErrorfW("SnapshotMetadataServices.Get(%s): ", <<csiDriver>>, sms.err)]
    ELSE [sms |-> <<sms>>, err |-> Nil]

\* The token the cluster mints for a token request.
MintedToken(saNamespace, sa, audiences, expirationSeconds) ==
    <<"token-of", saNamespace, sa, audiences, expirationSeconds>>

\* createSecurityToken(ctx, saNamespace, sa, audience), given whether the
\* cluster refuses the token request
createSecurityToken(it, saNamespace, sa, audience, refusal) ==
    LET tokenRequest == [Audiences |-> <<audience>>, ExpirationSeconds |-> it.TokenExpirySecs] IN
    [call  |-> <<"ServiceAccounts.CreateToken", saNamespace, sa, tokenRequest>>,
     token |-> IF refusal # Nil THEN <<>>
               ELSE MintedToken(saNamespace, sa, tokenRequest.Audiences,
                                tokenRequest.ExpirationSeconds),
     err   |-> IF refusal # Nil
               THEN ErrorfV("ServiceAccounts.CreateToken(%s/%s): ", <<saNamespace, sa>>, refusal)
               ELSE Nil]

\* A variant of getGRPCClient that dials whatever AppendCertsFromPEM answers.
getGRPCClient_NoCertTest(caCert, url, dialErr) ==
    IF dialErr # Nil
    THEN [calls |-> << <<"grpc.NewClient", url>> >>,
          err |-> ErrorfW("grpc.NewClient(%s): ", <<url>>, dialErr)]
    ELSE [calls |-> << <<"grpc.NewClient", url>> >>, err |-> Nil]

\* getGRPCClient(caCert, url), given what grpc.NewClient answers
getGRPCClient(caCert, url, dialErr) ==
    IF ~AppendCertsFromPEM(caCert)
    THEN [calls |-> <<>>, err |-> ErrCACert]
    ELSE IF dialErr # Nil
    THEN [calls |-> << <<"grpc.NewClient", url>> >>,
          err |-> ErrorfW("grpc.NewClient(%s): ", <<url>>, dialErr)]
    ELSE [calls |-> << <<"grpc.NewClient", url>> >>, err |-> Nil]

\* What the cluster may answer to a token request besides a token.
TokenRefusals == { PlainError("serviceaccount not found") }

\* What grpc.NewClient may answer besides a connection.
DialErrors == { PlainError("invalid target") }

\* The records the gateway's stream may carry.
ApiResponses == { convertToGetMetadataAllocatedResponse(r) : r \in CsiResponses }

\* What the emitter's operations may answer besides nil.
EmitterRecordErrors == { PlainError("failed to read source device"), ErrCancelled }
EmitterDoneErrors == { PlainError("source and target device contents do not match") }

\* A variant of Run's early return that returns nil.
RunReturnEarly_Nil(err) ==
    /\ result' = Nil
    /\ pc' = "returned"

\* Run returns without a deferred call: result and position only.
RunReturnEarly(err) ==
    /\ result' = err
    /\ pc' = "returned"

\* Run, its second step: the CSI driver, the given one or that of the content
\* bound to the primary snapshot.
RunGetCSIDriver ==
    /\ pc = "getCSIDriver"
    /\ IF iter.csiDriver = ""
       THEN \E vs \in IteratorVolumeSnapshots(req.Namespace, req.SnapshotName),
               vsc \in IteratorVolumeSnapshotContents :
              LET r == getCSIDriverFromPrimarySnapshot(req, vs, vsc) IN
              /\ calls' = calls \o r.calls
              /\ IF r.err # Nil
                 THEN /\ RunReturnEarly(r.err)
                      /\ UNCHANGED iter
                 ELSE /\ iter' = [iter EXCEPT !.csiDriver = r.driver]
                      /\ pc' = "getSnapshotMetadataServiceCR"
                      /\ UNCHANGED result
       ELSE /\ pc' = "getSnapshotMetadataServiceCR"
            /\ UNCHANGED <<calls, result, iter>>
    /\ UNCHANGED <<kind, req, ready, lastWrite, cancelled, csiReq, csiResp, received, sent,
                   recvEnd, sendErr>>

\* Run: load the driver's SnapshotMetadataService object.
RunGetSnapshotMetadataServiceCR ==
    /\ pc = "getSnapshotMetadataServiceCR"
    /\ LET r == getSnapshotMetadataServiceCR(iter.csiDriver) IN
       /\ calls' = Append(calls, <<"SnapshotMetadataServices.Get", iter.csiDriver>>)
       /\ IF r.err # Nil
          THEN /\ RunReturnEarly(r.err)
               /\ UNCHANGED iter
          ELSE /\ iter' = [iter EXCEPT !.smsCR = r.sms]
               /\ pc' = "createSecurityToken"
               /\ UNCHANGED result
    /\ UNCHANGED <<kind, req, ready, lastWrite, cancelled, csiReq, csiResp, received, sent,
                   recvEnd, sendErr>>

\* Run: get the security token to use in the API.
RunCreateSecurityToken ==
    /\ pc = "createSecurityToken"
    /\ \E refusal \in {Nil} \cup TokenRefusals :
         LET r == createSecurityToken(iter, iter.saNamespace, iter.saName,
                                      iter.smsCR[1].Audience, refusal) IN
         /\ calls' = Append(calls, r.call)
         /\ IF r.err # Nil
            THEN /\ RunReturnEarly(r.err)
                 /\ UNCHANGED iter
            ELSE /\ iter' = [iter EXCEPT !.securityToken = r.token]
                 /\ pc' = "getGRPCClient"
                 /\ UNCHANGED result
    /\ UNCHANGED <<kind, req, ready, lastWrite, cancelled, csiReq, csiResp, received, sent,
                   recvEnd, sendErr>>

\* Run: create the gRPC client of the service and then the cancellable child
\* context, the cancellation of which is deferred to Run's return.
RunGetGRPCClient ==
    /\ pc = "getGRPCClient"
    /\ \E dialErr \in {Nil} \cup DialErrors :
         LET r == getGRPCClient(iter.smsCR[1].CACert, iter.smsCR[1].Address, dialErr) IN
         /\ calls' = calls \o r.calls
         /\ IF r.err # Nil
            THEN /\ RunReturnEarly(r.err)
                 /\ UNCHANGED iter
            ELSE /\ iter' = [iter EXCEPT !.ctx = "child"]
                 /\ pc' = "getBlocks"
                 /\ UNCHANGED result
    /\ UNCHANGED <<kind, req, ready, lastWrite, cancelled, csiReq, csiResp, received, sent,
                   recvEnd, sendErr>>

\* A variant of cancelFn that does nothing.
cancelFn_Noop(ctxs) == ctxs

\* cancelFn of context.WithCancel(ctx): it ends the child context and leaves
\* the parent as it is.  ctxs tells which of the two contexts are done.
cancelFn(ctxs) == [ctxs EXCEPT !.child = TRUE]

\* Run returns after `defer cancelFn()`: the deferred call runs.
RunReturn(it, err) ==
    LET ctxs == cancelFn([caller |-> cancelled, child |-> it.childDone]) IN
    /\ result' = err
    /\ pc' = "returned"
    /\ cancelled' = ctxs.caller
    /\ iter' = [it EXCEPT !.childDone = ctxs.child]

\* A variant of the request of getChangedBlocks with the two snapshots
\* exchanged.
getChangedBlocksRequest_Exchanged(a, securityToken) ==
    [SecurityToken      |-> securityToken,
     Namespace          |-> a.Namespace,
     BaseSnapshotName   |-> a.SnapshotName,
     TargetSnapshotName |-> a.PrevSnapshotName,
     StartingOffset     |-> a.StartingOffset,
     MaxResults         |-> a.MaxResults]

\* The api.GetMetadataAllocatedRequest of getAllocatedBlocks
getAllocatedBlocksRequest(a, securityToken) ==
    [SecurityToken  |-> securityToken,
     Namespace      |-> a.Namespace,
     SnapshotName   |-> a.SnapshotName,
     StartingOffset |-> a.StartingOffset,
     MaxResults     |-> a.MaxResults]

\* The api.GetMetadataDeltaRequest of getChangedBlocks
getChangedBlocksRequest(a, securityToken) ==
    [SecurityToken      |-> securityToken,
     Namespace          |-> a.Namespace,
     BaseSnapshotName   |-> a.PrevSnapshotName,
     TargetSnapshotName |-> a.SnapshotName,
     StartingOffset     |-> a.StartingOffset,
     MaxResults         |-> a.MaxResults]

\* Which of the two streaming calls Run makes, with its request and the
\* formats and arguments of its error messages.
streamingCall(a, securityToken) ==
    IF a.PrevSnapshotName = ""
    THEN [rpc |-> "GetMetadataAllocated",
          request |-> getAllocatedBlocksRequest(a, securityToken),
          openStem |-> "GetMetadataAllocated(%s,%s): ",
          recvStem |-> "GetMetadataAllocated(%s,%s).Recv: ",
          args |-> <<a.Namespace, a.SnapshotName>>]
    ELSE [rpc |-> "GetMetadataDelta",
          request |-> getChangedBlocksRequest(a, securityToken),
          openStem |-> "GetMetadataDelta(%s,%s,%s): ",
          recvStem |-> "GetMetadataDelta(%s,%s,%s).Recv: ",
          args |-> <<a.Namespace, a.PrevSnapshotName, a.SnapshotName>>]

\* A variant of Run that calls the emitter's Done operation whatever the
\* enumeration returned.
RunCallsDone_Always(err) == TRUE

\* Run, after getAllocatedBlocks / getChangedBlocks returned err: the
\* emitter's Done operation is called when err is nil.
RunCallsDone(err) == err = Nil

\* getAllocatedBlocks / getChangedBlocks returned err to Run.
BlocksReturn(it, err) ==
    IF RunCallsDone(err)
    THEN /\ pc' = "Done"
         /\ iter' = it
         /\ UNCHANGED <<result, cancelled>>
    ELSE RunReturn(it, err)

\* getAllocatedBlocks / getChangedBlocks: the streaming call is opened with
\* the context Run holds.
RunOpenStream ==
    /\ pc = "getBlocks"
    /\ LET c == streamingCall(req, iter.securityToken) IN
       /\ calls' = Append(calls, <<c.rpc, iter.ctx, c.request>>)
       /\ \E openErr \in {Nil} \cup OpenErrors :
            IF openErr # Nil
            THEN BlocksReturn(iter, ErrorfW(c.openStem, c.args, openErr))
            ELSE /\ pc' = "Recv"
                 /\ UNCHANGED <<result, cancelled, iter>>
    /\ UNCHANGED <<kind, req, ready, lastWrite, csiReq, csiResp, received, sent, recvEnd, sendErr>>

\* IteratorMetadata of a record received
IteratorMetadata(resp) ==
    [BlockMetadataType   |-> resp.BlockMetadataType,
     VolumeCapacityBytes |-> resp.VolumeCapacityBytes,
     BlockMetadata       |-> resp.BlockMetadata]

\* A variant of the loop's body that counts the record after it was emitted.
emitRecord_CountAfter(it, resp, answer) ==
    [it EXCEPT
       !.recordNum = it.recordNum + 1,
       !.emitted = Append(it.emitted,
                     [op |-> "SnapshotMetadataIteratorRecord",
                      recordNumber |-> it.recordNum,
                      metadata |-> IteratorMetadata(resp),
                      err |-> answer])]

\* The loop's body after a record was received: iter.recordNum++ and the call
\* of the emitter's Record operation, which answers `answer`.
emitRecord(it, resp, answer) ==
    [it EXCEPT
       !.recordNum = it.recordNum + 1,
       !.emitted = Append(it.emitted,
                     [op |-> "SnapshotMetadataIteratorRecord",
                      recordNumber |-> it.recordNum + 1,
                      metadata |-> IteratorMetadata(resp),
                      err |-> answer])]

\* A variant of the loop that goes on after an error of the emitter.
loopReturnsOn_Never(err) == FALSE

\* The loop returns the emitter's error when it is not nil.
loopReturnsOn(err) == err # Nil

\* The loop of getAllocatedBlocks / getChangedBlocks at stream.Recv(): a
\* record, the end of the stream or an error.
RunRecv ==
    /\ pc = "Recv"
    /\ \/ /\ Len(received) < MaxRecords
          /\ \E resp \in ApiResponses :
               /\ received' = Append(received, resp)
               /\ csiResp' = resp
          /\ pc' = "Emit"
          /\ UNCHANGED <<recvEnd, result, cancelled, iter>>
       \/ \E err \in RecvErrors :
            /\ recvEnd' = err
            /\ BlocksReturn(iter,
                 IF err = ioEOF THEN Nil
                 ELSE ErrorfW(streamingCall(req, iter.securityToken).recvStem,
                              streamingCall(req, iter.securityToken).args, err))
            /\ UNCHANGED <<received, csiResp>>
    /\ UNCHANGED <<kind, req, ready, lastWrite, calls, csiReq, sent, sendErr>>

\* The loop after a record was received: the emitter's Record operation.
RunEmit ==
    /\ pc = "Emit"
    /\ \E answer \in {Nil} \cup EmitterRecordErrors :
         LET it == emitRecord(iter, csiResp, answer) IN
         IF loopReturnsOn(answer)
         THEN BlocksReturn(it, answer)
         ELSE /\ pc' = "Recv"
              /\ iter' = it
              /\ UNCHANGED <<result, cancelled>>
    /\ csiResp' = NoResp
    /\ UNCHANGED <<kind, req, ready, lastWrite, calls, csiReq, received, sent, recvEnd, sendErr>>

\* Run's last statement: the emitter's Done operation, the answer of which
\* Run returns.
RunDone ==
    /\ pc = "Done"
    /\ \E answer \in {Nil} \cup EmitterDoneErrors :
         RunReturn([iter EXCEPT
                      !.emitted = Append(iter.emitted,
                                    [op |-> "SnapshotMetadataIteratorDone",
                                     recordNumber |-> iter.recordNum,
                                     metadata |-> NoResp,
                                     err |-> answer])],
                   answer)
    /\ UNCHANGED <<kind, req, ready, lastWrite, calls, csiReq, csiResp, received, sent,
                   recvEnd, sendErr>>

NextIterator ==
    \/ GetSnapshotMetadata
    \/ RunGetDefaultServiceAccount
    \/ RunGetCSIDriver
    \/ RunGetSnapshotMetadataServiceCR
    \/ RunCreateSecurityToken
    \/ RunGetGRPCClient
    \/ RunOpenStream
    \/ RunRecv
    \/ RunEmit
    \/ RunDone

SpecIterator == InitIterator /\ [][NextIterator]_vars

----------------------------------------------------------------------------
(* Concurrent invocations of the Allocated handler.  gRPC runs each call in   *)
(* a goroutine of its own; a handler keeps its request, its driver stream     *)
(* (csiStream), its caller stream and its record in flight in locals, so      *)
(* here each variable of the handler is a function of the invocation.  The    *)
(* invocations share the server: its readiness flag and its connection to     *)
(* the driver, on which `calls` logs the streams opened, in order.            *)

Handlers == {"h1", "h2"}

\* The requests of the concurrent callers: admissible ones, for two snapshots.
ConcurrentRequests ==
    { r \in AllocatedRequests :
         /\ r.SecurityToken = "token"
         /\ r.Namespace = "test-ns"
         /\ r.SnapshotName \in {"snap-1", "snap-2"}
         /\ r.StartingOffset = 0 }

\* The records the driver delivers on a stream opened with `cr`: those of
\* the snapshot asked for.
DriverRecords(cr) ==
    { r \in CsiResponses :
         (r.BlockMetadataType = 1) <=> (cr.SnapshotId = HandleFromSnapshot("snap-1")) }

\* A variant of csiStream in which the stream is kept in the server: every
\* handler reads the stream opened last on the connection.
csiStream_OfServer(h, opened) == opened[Len(opened)].handler

\* csiStream, the local of GetMetadataAllocated: the stream its own call on
\* the driver's client returned.  A stream is named after the invocation
\* that opened it.
csiStream(h, opened) ==
    opened[CHOOSE i \in 1..Len(opened) : opened[i].handler = h].handler

InitConcurrent ==
    /\ kind = "Concurrent"
    /\ req = [h \in Handlers |-> NoReq]
    /\ pc = [h \in Handlers |-> "idle"]
    /\ ready = FALSE
    /\ lastWrite = "none"
    /\ cancelled = FALSE
    /\ calls = <<>>
    /\ csiReq = [h \in Handlers |-> NoCsiReq]
    /\ csiResp = [h \in Handlers |-> NoResp]
    /\ received = [h \in Handlers |-> <<>>]
    /\ sent = [h \in Handlers |-> <<>>]
    /\ recvEnd = [h \in Handlers |-> NoResult]
    /\ sendErr = [h \in Handlers |-> NoResult]
    /\ result = [h \in Handlers |-> NoResult]
    /\ iter = NoIter

\* Invocation h returns err.
ReturnOf(h, err) ==
    /\ pc' = [pc EXCEPT ![h] = "done"]
    /\ result' = [result EXCEPT ![h] = err]

\* A call arrives; its handler validates the request and authenticates the
\* caller, which touches nothing the invocations share.
HandlerAdmit(h) ==
    /\ pc[h] = "idle"
    /\ \E r \in ConcurrentRequests :
         LET auth == authenticateAndAuthorize(r.SecurityToken, r.Namespace) IN
         /\ req' = [req EXCEPT ![h] = r]
         /\ IF validateRequest("Allocated", r) # Nil
            THEN ReturnOf(h, validateRequest("Allocated", r))
            ELSE IF auth.err # Nil
            THEN ReturnOf(h, auth.err)
            ELSE /\ pc' = [pc EXCEPT ![h] = "ready"]
                 /\ UNCHANGED result
    /\ UNCHANGED <<iter, kind, ready, lastWrite, cancelled, calls, csiReq, csiResp, received, sent,
                   recvEnd, sendErr>>

\* s.isCSIDriverReady(ctx): the read of the shared flag.
HandlerGate(h) ==
    /\ pc[h] = "ready"
    /\ IF isCSIDriverReady(ready) # Nil
       THEN ReturnOf(h, isCSIDriverReady(ready))
       ELSE /\ pc' = [pc EXCEPT ![h] = "open"]
            /\ UNCHANGED result
    /\ UNCHANGED <<iter, kind, req, ready, lastWrite, cancelled, calls, csiReq, csiResp, received,
                   sent, recvEnd, sendErr>>

\* The conversion of the request and the opening of the driver stream on the
\* shared connection.
HandlerOpen(h) ==
    /\ pc[h] = "open"
    /\ LET conv == convertToCSIRequest("Allocated", req[h]) IN
       IF conv.err # Nil
       THEN /\ ReturnOf(h, conv.err)
            /\ UNCHANGED <<calls, csiReq>>
       ELSE /\ csiReq' = [csiReq EXCEPT ![h] = conv.csiReq]
            /\ \/ /\ calls' = Append(calls, [handler |-> h, request |-> conv.csiReq])
                  /\ pc' = [pc EXCEPT ![h] = "recv"]
                  /\ UNCHANGED result
               \/ /\ \E err \in OpenErrors : ReturnOf(h, err)
                  /\ UNCHANGED calls
    /\ UNCHANGED <<iter, kind, req, ready, lastWrite, cancelled, csiResp, received, sent, recvEnd,
                   sendErr>>

\* csiStream.Recv() in the loop of invocation h: the driver delivers the next
\* record of that stream, or ends it.
HandlerRecv(h) ==
    /\ pc[h] = "recv"
    /\ LET s == csiStream(h, calls) IN
       \/ /\ Len(received[s]) < MaxRecords
          /\ \E resp \in DriverRecords(calls[CHOOSE i \in 1..Len(calls) :
                                               calls[i].handler = s].request) :
               /\ received' = [received EXCEPT ![s] = Append(received[s], resp)]
               /\ csiResp' = [csiResp EXCEPT ![h] = resp]
          /\ pc' = [pc EXCEPT ![h] = "send"]
          /\ UNCHANGED <<recvEnd, result>>
       \/ \E err \in RecvErrors :
            /\ recvEnd' = [recvEnd EXCEPT ![h] = err]
            /\ ReturnOf(h, recvReturn(err))
            /\ UNCHANGED <<received, csiResp>>
    /\ UNCHANGED <<iter, kind, req, ready, lastWrite, cancelled, calls, csiReq, sent, sendErr>>

\* The conversion and clientStream.Send(clientResp) of invocation h.
HandlerSend(h) ==
    /\ pc[h] = "send"
    /\ \/ /\ sent' = [sent EXCEPT ![h] = Append(sent[h], convertToResponse("Allocated", csiResp[h]))]
          /\ pc' = [pc EXCEPT ![h] = "recv"]
          /\ UNCHANGED <<sendErr, result>>
       \/ \E err \in SendErrors :
            /\ sendErr' = [sendErr EXCEPT ![h] = err]
            /\ ReturnOf(h, sendReturn(err))
            /\ UNCHANGED sent
    /\ csiResp' = [csiResp EXCEPT ![h] = NoResp]
    /\ UNCHANGED <<iter, kind, req, ready, lastWrite, cancelled, calls, csiReq, received, recvEnd>>

NextConcurrent ==
    \/ \E h \in Handlers : HandlerAdmit(h)
    \/ \E h \in Handlers : HandlerGate(h)
    \/ \E h \in Handlers : HandlerOpen(h)
    \/ \E h \in Handlers : HandlerRecv(h)
    \/ \E h \in Handlers : HandlerSend(h)
    \/ CSIDriverIsReady
    \/ CSIDriverIsNotReady

SpecConcurrent == InitConcurrent /\ [][NextConcurrent]_vars

----------------------------------------------------------------------------
(* The verifier (package verifier): VerifySnapshotMetadata validates its     *)
(* arguments, which embed the iterator's, and runs an iterator on them.      *)

\* The arguments VerifySnapshotMetadata may be given: iterator arguments and
\* the paths of the two devices.
VerifierArgs ==
    { [Args |-> a, SourceDevicePath |-> s, TargetDevicePath |-> t] :
         a \in IteratorArgs, s \in {"", "/dev/source"}, t \in {"", "/dev/target"} }

\* A variant of the verifier's Args.Validate that wants one path only.
VerifierArgsValidate_OnePath(a) ==
    IF ArgsValidate(a.Args) # Nil
    THEN ArgsValidate(a.Args)
    ELSE IF a.SourceDevicePath = "" /\ a.TargetDevicePath = ""
    THEN ErrorfWrapFirst(ErrInvalidArgs, ": Verify requires SourceDevicePath and TargetDevicePath")
    ELSE Nil

\* func (a *Args) Validate() error, of the verifier.  Its last step validates
\* the clients, which a.Args.Validate() has accepted already.
VerifierArgsValidate(a) ==
    IF ArgsValidate(a.Args) # Nil
    THEN ArgsValidate(a.Args)
    ELSE IF a.SourceDevicePath = "" \/ a.TargetDevicePath = ""
    THEN ErrorfWrapFirst(ErrInvalidArgs, ": Verify requires SourceDevicePath and TargetDevicePath")
    ELSE Nil

InitVerifier ==
    /\ kind = "Verifier"
    /\ req \in VerifierArgs
    /\ pc = "VerifySnapshotMetadata"
    /\ ready = FALSE
    /\ lastWrite = "none"
    /\ cancelled = FALSE
    /\ calls = <<>>
    /\ csiReq = NoCsiReq
    /\ csiResp = NoResp
    /\ received = <<>>
    /\ sent = <<>>
    /\ recvEnd = NoResult
    /\ sendErr = NoResult
    /\ result = NoResult
    /\ iter = NoIter

\* VerifySnapshotMetadata(ctx, args) up to the call of Run
VerifySnapshotMetadata ==
    /\ pc = "VerifySnapshotMetadata"
    /\ IF VerifierArgsValidate(req) # Nil
       THEN /\ result' = VerifierArgsValidate(req)
            /\ pc' = "returned"
            /\ UNCHANGED iter
       ELSE /\ iter' = NewIterator(req.Args)
            /\ pc' = "Run"
            /\ UNCHANGED result
    /\ UNCHANGED <<kind, req, ready, lastWrite, cancelled, calls, csiReq, csiResp, received, sent,
                   recvEnd, sendErr>>

NextVerifier == VerifySnapshotMetadata

SpecVerifier == InitVerifier /\ [][NextVerifier]_vars


----------------------------------------------------------------------------
(* The verifier's emitter: SnapshotMetadataIteratorDone compares the source  *)
(* device with the target device, a chunk at a time.  `req` holds the        *)
(* contents of the two devices, `iter` the offsets of the two files and the  *)
(* two buffers, `calls` the Seek and Read calls made, in order.              *)

\* The size of the buffers of SnapshotMetadataIteratorDone (256 in the
\* program) and the longest device, in bytes.
chunkSize == 2
MaxDeviceLen == 4

DeviceBytes == {0, 1}

DeviceContents == UNION { [1..n -> DeviceBytes] : n \in 0..MaxDeviceLen }

\* The errors of File.Seek and File.Read other than io.EOF
osErrInvalid == PlainError("invalid argument")
syscallEIO == PlainError("input/output error")

\* make([]byte, n)
makeBytes(n) == [i \in 1..n |-> 0]

\* File.Read(b) on a file of contents `data` at offset `off`: at the end of
\* the file 0 bytes and io.EOF; otherwise at least one byte and at most
\* len(b), stored at the start of b, whose other bytes are left as they are;
\* or an error of the device.
FileRead(data, off, b) ==
    IF off >= Len(data)
    THEN { [n |-> 0, err |-> ioEOF, b |-> b] }
    ELSE { [n |-> n, err |-> Nil,
            b |-> [i \in 1..Len(b) |-> IF i <= n THEN data[off + i] ELSE b[i]]] :
              n \in 1..(IF Len(b) < Len(data) - off THEN Len(b) ELSE Len(data) - off) }
         \cup { [n |-> 0, err |-> syscallEIO, b |-> b] }

ErrContentsDoNotMatch == PlainError("source and target device contents do not match")

\* One turn of the loop of SnapshotMetadataIteratorDone after its two reads:
\* the error it returns, Nil when it returns nil, NoResult when it goes on.
compareChunk(sourceErr, targetErr, sourceBuffer, targetBuffer) ==
    IF sourceErr # Nil \/ targetErr # Nil
    THEN IF sourceErr = ioEOF /\ targetErr = ioEOF
         THEN Nil
         ELSE IF sourceErr = ioEOF \/ targetErr = ioEOF
         THEN ErrContentsDoNotMatch
         ELSE ErrorfV("error reading source and target device contents: source(%q) target(%q)",
                      <<ErrorText(sourceErr)>>, targetErr)
    ELSE IF sourceBuffer # targetBuffer
    THEN ErrContentsDoNotMatch
    ELSE NoResult

\* The devices when the enumeration is done: the records moved the offset of
\* the source, which they read, and not that of the target, which they wrote
\* with WriteAt.
InitVerifierEmitter ==
    /\ kind = "VerifierEmitter"
    /\ req \in [SourceDevice : DeviceContents, TargetDevice : DeviceContents]
    /\ pc = "SnapshotMetadataIteratorDone"
    /\ ready = FALSE
    /\ lastWrite = "none"
    /\ cancelled = FALSE
    /\ calls = <<>>
    /\ csiReq = NoCsiReq
    /\ csiResp = NoResp
    /\ received = <<>>
    /\ sent = <<>>
    /\ recvEnd = NoResult
    /\ sendErr = NoResult
    /\ result = NoResult
    /\ \E off \in 0..MaxDeviceLen :
         /\ off <= Len(req.SourceDevice)
         /\ iter = [sourceOffset |-> off, targetOffset |-> 0,
                    sourceBuffer |-> <<>>, targetBuffer |-> <<>>]

\* SnapshotMetadataIteratorDone up to its loop: both files are set to their
\* start and the two buffers are made.
SnapshotMetadataIteratorDoneSeek ==
    /\ pc = "SnapshotMetadataIteratorDone"
    /\ \E sourceErr \in {Nil, osErrInvalid} :
         IF sourceErr # Nil
         THEN /\ calls' = Append(calls, <<"Seek", "source", sourceErr>>)
              /\ result' = ErrorfW("failed to seek source device(%q) to start: ",
                                   <<"/dev/source">>, sourceErr)
              /\ pc' = "returned"
              /\ UNCHANGED iter
         ELSE \E targetErr \in {Nil, osErrInvalid} :
                /\ calls' = calls \o << <<"Seek", "source", Nil>>, <<"Seek", "target", targetErr>> >>
                /\ IF targetErr # Nil
                   THEN /\ result' = ErrorfW("failed to seek target device(%q) to start: ",
                                             <<"/dev/target">>, targetErr)
                        /\ pc' = "returned"
                        /\ iter' = [iter EXCEPT !.sourceOffset = 0]
                   ELSE /\ iter' = [sourceOffset |-> 0, targetOffset |-> 0,
                                    sourceBuffer |-> makeBytes(chunkSize),
                                    targetBuffer |-> makeBytes(chunkSize)]
                        /\ pc' = "Read"
                        /\ UNCHANGED result
    /\ UNCHANGED <<kind, req, ready, lastWrite, cancelled, csiReq, csiResp, received, sent,
                   recvEnd, sendErr>>

\* One turn of the loop of SnapshotMetadataIteratorDone: a read of each
\* device, whose byte counts are dropped, and the comparison of the buffers.
SnapshotMetadataIteratorDoneChunk ==
    /\ pc = "Read"
    /\ \E s \in FileRead(req.SourceDevice, iter.sourceOffset, iter.sourceBuffer),
          t \in FileRead(req.TargetDevice, iter.targetOffset, iter.targetBuffer) :
         LET err == compareChunk(s.err, t.err, s.b, t.b) IN
         /\ calls' = calls \o << <<"Read", "source", s.err>>, <<"Read", "target", t.err>> >>
         /\ iter' = [sourceOffset |-> iter.sourceOffset + s.n,
                     targetOffset |-> iter.targetOffset + t.n,
                     sourceBuffer |-> s.b, targetBuffer |-> t.b]
         /\ IF err = NoResult
            THEN /\ pc' = "Read"
                 /\ UNCHANGED result
            ELSE /\ pc' = "returned"
                 /\ result' = err
    /\ UNCHANGED <<kind, req, ready, lastWrite, cancelled, csiReq, csiResp, received, sent,
                   recvEnd, sendErr>>

NextVerifierEmitter ==
    \/ SnapshotMetadataIteratorDoneSeek
    \/ SnapshotMetadataIteratorDoneChunk

SpecVerifierEmitter == InitVerifierEmitter /\ [][NextVerifierEmitter]_vars


----------------------------------------------------------------------------
(* Properties. *)

\* The required fields of a request, in the order the specification lists them.
RequiredFields(k) ==
    IF k = "Allocated"
    THEN <<"SecurityToken", "Namespace", "SnapshotName">>
    ELSE <<"SecurityToken", "Namespace", "BaseSnapshotName", "TargetSnapshotName">>

\* The value of a field of a request; a nil request has no field set.
FieldOf(r, f) == IF r.isNil THEN "" ELSE r[f]

\* The positions, in RequiredFields, of the required fields that are empty.
EmptyFields(k, r) == { i \in 1..Len(RequiredFields(k)) : FieldOf(r, RequiredFields(k)[i]) = "" }

\* The message that reports a missing field.
MissingMessage(f) ==
    CASE f = "SecurityToken"      -> msgInvalidArgumentSecurityTokenMissing
      [] f = "Namespace"          -> msgInvalidArgumentNamespaceMissing
      [] f = "SnapshotName"       -> msgInvalidArgumentSnaphotNameMissing
      [] f = "BaseSnapshotName"   -> msgInvalidArgumentBaseSnapshotNameMissing
      [] f = "TargetSnapshotName" -> msgInvalidArgumentTargetSnapshotNameMissing

\* The tokens the cluster accepts for a namespace: those of a service account
\* of that namespace, issued for the gateway's audience.
AcceptedTokens(namespace) ==
    CASE namespace = "test-ns"  -> {"token"}
      [] namespace = "other-ns" -> {"token-other-ns"}
      [] OTHER -> {}

\* The tokens whose review succeeds and rejects the caller.
RejectedToken(r) ==
    /\ r.SecurityToken # "token-review-error"
    /\ r.SecurityToken \notin AcceptedTokens(r.Namespace)

\* The calls of `cs` that look up a snapshot, a content, a class or a secret,
\* or that reach the driver.
IsLookupOrDriverCall(c) ==
    c[1] \in {"GetVolumeSnapshot", "GetVolumeSnapshotContent", "GetVolumeSnapshotClass",
              "GetSecret", "CSI.GetMetadataAllocated", "CSI.GetMetadataDelta"}

NoLookupOrDriverCall ==
    /\ \A i \in 1..Len(calls) : ~IsLookupOrDriverCall(calls[i])
    /\ csiReq = NoCsiReq
    /\ received = <<>>
    /\ sent = <<>>

\* C1: at every point the records sent to the caller are, one for one and
\* field by field, the first records received from the driver.
C1_SentIsPrefixOfReceived ==
    /\ Len(sent) <= Len(received)
    /\ \A i \in 1..Len(sent) :
         /\ sent[i].BlockMetadataType = received[i].BlockMetadataType
         /\ sent[i].VolumeCapacityBytes = received[i].VolumeCapacityBytes
         /\ Len(sent[i].BlockMetadata) = Len(received[i].BlockMetadata)
         /\ \A j \in 1..Len(sent[i].BlockMetadata) :
              /\ sent[i].BlockMetadata[j].ByteOffset = received[i].BlockMetadata[j].ByteOffset
              /\ sent[i].BlockMetadata[j].SizeBytes = received[i].BlockMetadata[j].SizeBytes

C1_Witness ==
    /\ kind = "Allocated"
    /\ Len(sent) = 2
    /\ Len(sent[1].BlockMetadata) = 1
    /\ Len(sent[2].BlockMetadata) = 2

\* C2: the handler returns nil exactly when the driver stream reported its
\* end, and then, no send having failed, every record received was sent.
C2_SuccessIffEndOfStream ==
    /\ (pc = "done" /\ result = Nil) =>
          (recvEnd = ioEOF /\ sendErr = NoResult /\ Len(sent) = Len(received))
    /\ recvEnd = ioEOF =>
          (pc = "done" /\ result = Nil /\ Len(sent) = Len(received))

C2_Witness ==
    /\ pc = "done"
    /\ result = Nil
    /\ recvEnd = ioEOF
    /\ Len(sent) = 2

C4_DriverErrorWrapped ==
    (recvEnd.kind = "error" /\ recvEnd # ioEOF) =>
       /\ pc = "done"
       /\ result.kind = "status"
       /\ result.code = "Internal"
       /\ Head(result.msg) = "CSI driver response failure"
       /\ Len(sent) = Len(received)

C4_Witness ==
    /\ pc = "done"
    /\ recvEnd = ioErrUnexpectedEOF
    /\ result.code = "Internal"
    /\ Len(sent) = 1

\* C5: a failed Send ends the handler at once: it returns the send error's
\* own status if it is one, and otherwise Internal with the send-failure
\* message; nothing more is received or sent.
C5_SendErrorReturned ==
    sendErr # NoResult =>
       /\ pc = "done"
       /\ recvEnd = NoResult
       /\ Len(sent) + 1 = Len(received)
       /\ IF sendErr.kind = "status"
          THEN result = sendErr
          ELSE /\ result.kind = "status"
               /\ result.code = "Internal"
               /\ Head(result.msg) = "failed to send response"

C5_Witness ==
    /\ pc = "done"
    /\ sendErr.kind = "error"
    /\ result.code = "Internal"
    /\ Len(sent) = 1
    /\ Len(received) = 2

\* C6: a request with an empty required field is answered InvalidArgument
\* with no token review, no readiness check, no lookup and no driver call.
C6_InvalidRequestTouchesNothing ==
    (pc # "idle" /\ EmptyFields(kind, req) # {}) =>
       /\ pc = "done"
       /\ result.code = "InvalidArgument"
       /\ calls = <<>>
       /\ NoLookupOrDriverCall

C6_Witness ==
    /\ pc = "done"
    /\ kind = "Allocated"
    /\ req.SecurityToken = "token"
    /\ req.Namespace = "test-ns"
    /\ req.SnapshotName = ""
    /\ ready
    /\ result.code = "InvalidArgument"

\* C7: validation reports the earliest empty required field, in the fixed
\* order of the fields, and succeeds exactly when none is empty; a nil
\* request is reported as lacking the security token.
C7_FirstMissingFieldReported ==
    pc = "validated" =>
       IF EmptyFields(kind, req) = {}
       THEN result = Nil
       ELSE LET first == CHOOSE i \in EmptyFields(kind, req) :
                            \A j \in EmptyFields(kind, req) : i <= j
            IN  /\ result.kind = "status"
                /\ result.code = "InvalidArgument"
                /\ result.msg = <<MissingMessage(RequiredFields(kind)[first])>>

C7_Witness ==
    /\ pc = "validated"
    /\ kind = "Allocated"
    /\ ~req.isNil
    /\ req.SecurityToken = ""
    /\ req.Namespace = ""
    /\ req.SnapshotName = ""
    /\ result.msg = <<"security token missing">>

\* C8: a well-formed request whose token the authentication rejects is
\* answered Unauthenticated after the token review alone, whatever the
\* readiness flag is.
C8_RejectedTokenStopsHandler ==
    (pc \notin {"idle", "authenticate"} /\ EmptyFields(kind, req) = {} /\ RejectedToken(req)) =>
       /\ pc = "done"
       /\ result.code = "Unauthenticated"
       /\ calls = <<<<"TokenReview", req.SecurityToken>>>>
       /\ NoLookupOrDriverCall

C8_Witness ==
    /\ pc = "done"
    /\ ready
    /\ req.SecurityToken = "token"
    /\ req.Namespace = "other-ns"
    /\ result.code = "Unauthenticated"

\* C9: when the readiness gate reads the flag as false, the handler returns
\* Unavailable, driver not ready, and the request causes no lookup and no
\* driver call.
C9_NotReadyStopsHandler ==
    (\E i \in 1..Len(calls) : calls[i] = <<"IsCSIDriverReady", FALSE>>) =>
       /\ pc = "done"
       /\ result = [kind |-> "status", code |-> "Unavailable", msg |-> <<"driver not ready">>]
       /\ calls[Len(calls)] = <<"IsCSIDriverReady", FALSE>>
       /\ NoLookupOrDriverCall

C9_Witness ==
    /\ pc = "done"
    /\ Len(calls) = 2
    /\ calls[2] = <<"IsCSIDriverReady", FALSE>>
    /\ ready
    /\ result.code = "Unavailable"

\* The rank of a call in the order validate, authenticate, readiness gate,
\* resolve snapshots, fetch credentials, open the driver stream.
StepRank(c) ==
    CASE c[1] = "TokenReview" -> 1
      [] c[1] = "IsCSIDriverReady" -> 2
      [] c[1] \in {"GetVolumeSnapshot", "GetVolumeSnapshotContent"} -> 3
      [] c[1] \in {"GetVolumeSnapshotClass", "GetSecret"} -> 4
      [] c[1] \in {"CSI.GetMetadataAllocated", "CSI.GetMetadataDelta"} -> 5

\* C10: the steps run in the order validate, authenticate, readiness gate,
\* resolve, credentials, driver stream, forward, each only after the earlier
\* ones succeeded; the error returned is that of the earliest failing step.
C10_StepsInOrder ==
    /\ \A i, j \in 1..Len(calls) : i < j => StepRank(calls[i]) <= StepRank(calls[j])
    /\ \A i \in 1..Len(calls) :
         /\ EmptyFields(kind, req) = {}
         /\ StepRank(calls[i]) >= 2 =>
              (calls[1][1] = "TokenReview" /\ req.SecurityToken \in AcceptedTokens(req.Namespace))
         /\ StepRank(calls[i]) >= 3 => calls[2] = <<"IsCSIDriverReady", TRUE>>
         /\ StepRank(calls[i]) = 5 => (i = Len(calls) /\ csiReq # NoCsiReq)
    /\ (pc \in {"recv", "send"} \/ received # <<>>) =>
          (calls # <<>> /\ StepRank(calls[Len(calls)]) = 5)
    /\ pc = "done" =>
          IF EmptyFields(kind, req) # {}
          THEN result.code = "InvalidArgument" /\ calls = <<>>
          ELSE IF req.SecurityToken \notin AcceptedTokens(req.Namespace)
          THEN result.code = "Unauthenticated" /\ Len(calls) = 1
          ELSE IF calls[2] = <<"IsCSIDriverReady", FALSE>>
          THEN result.msg = <<"driver not ready">> /\ Len(calls) = 2
          ELSE Len(calls) >= 3 /\ StepRank(calls[3]) = 3

C10_Witness ==
    /\ pc = "done"
    /\ kind = "Delta"
    /\ req.SecurityToken = "tokenFOO"
    /\ req.Namespace = ""
    /\ req.BaseSnapshotName = "snap-doesnt-exist"
    /\ ~ready
    /\ result.code = "InvalidArgument"
    /\ result.msg = <<"Namespace missing">>

\* The outcome of the token review of the request at hand, and whether the
\* authentication step has let the request through.
ReviewOfRequest == TokenReview(req.SecurityToken, {Audience})

AuthenticationRan == calls # <<>> /\ calls[1] = <<"TokenReview", req.SecurityToken>>

AuthenticationFailed == pc = "done" /\ Len(calls) = 1

\* The user of the review is a service account of the request's namespace:
\* "system:serviceaccount:<namespace>..." .
UserIsServiceAccountOf(username, namespace) ==
    /\ Len(username) >= 5
    /\ username[1] = "system" /\ username[2] = ":"
    /\ username[3] = "serviceaccount" /\ username[4] = ":"
    /\ username[5] = namespace

\* C11: the authentication lets a request through only if the token review
\* succeeded, reported the token authenticated, and named a user that starts
\* with system:serviceaccount: and whose third field is the request's
\* namespace; a failed review is answered Unauthenticated with the
\* token-review message, every other violation Unauthenticated with the
\* invalid-user message.  A token of another namespace is never accepted.
C11_AuthenticatedOnlyForOwnNamespace ==
    AuthenticationRan =>
       /\ ~AuthenticationFailed =>
             /\ ReviewOfRequest.err = Nil
             /\ ReviewOfRequest.authenticated
             /\ UserIsServiceAccountOf(ReviewOfRequest.username, req.Namespace)
       /\ AuthenticationFailed =>
             /\ result.kind = "status"
             /\ result.code = "Unauthenticated"
             /\ Head(result.msg) = IF ReviewOfRequest.err # Nil
                                   THEN msgUnauthenticatedFailedTokenReview
                                   ELSE msgUnauthenticatedUser
             /\ ~(/\ ReviewOfRequest.err = Nil
                  /\ ReviewOfRequest.authenticated
                  /\ UserIsServiceAccountOf(ReviewOfRequest.username, req.Namespace))
       /\ \A other \in Namespaces \ {req.Namespace} :
             UserIsServiceAccountOf(ReviewOfRequest.username, other) => AuthenticationFailed

C11_Witness ==
    /\ pc = "done"
    /\ req.SecurityToken = "token-other-ns"
    /\ req.Namespace = "test-ns"
    /\ ReviewOfRequest.authenticated
    /\ result.code = "Unauthenticated"
    /\ result.msg = <<msgUnauthenticatedUser>>

\* The conversion step of the invocation at hand has run.
ConversionRan ==
    /\ Len(calls) >= 2
    /\ calls[2] = <<"IsCSIDriverReady", TRUE>>
    /\ pc # "convert"

\* The snapshots a request names.
SnapshotsOf(k, r) ==
    IF k = "Allocated" THEN {r.SnapshotName} ELSE {r.BaseSnapshotName, r.TargetSnapshotName}

\* The first condition of a snapshot that fails, in the order: 1 snapshot not
\* fetched, 2 snapshot not ready, 3 no bound content name, 4 content not
\* fetched, 5 content not ready, 6 no snapshot handle; 0 if none fails.
FirstDefect(namespace, name) ==
    LET vs  == VolumeSnapshot(namespace, name)
        vsc == VolumeSnapshotContent(vs.boundContentName)
    IN  IF ~vs.exists THEN 1
        ELSE IF ~vs.readyToUse THEN 2
        ELSE IF vs.boundContentName = <<>> THEN 3
        ELSE IF ~vsc.exists THEN 4
        ELSE IF ~vsc.readyToUse THEN 5
        ELSE IF vsc.snapshotHandle = <<>> THEN 6
        ELSE 0

\* The message that reports the defect `d` of the snapshot `name`.
DefectMessage(namespace, name, d) ==
    CASE d = 1 -> <<msgUnavailableFailedToGetVolumeSnapshotFmt, namespace, name, "does not exist">>
      [] d = 2 -> <<msgUnavailableVolumeSnapshotNotReadyFmt, name>>
      [] d = 3 -> <<msgUnavailableInvalidVolumeSnapshotStatusFmt, name>>
      [] d = 4 -> <<msgUnavailableFailedToGetVolumeSnapshotContentFmt,
                    ContentNameFromSnapshot(name), "does not exist">>
      [] d = 5 -> <<msgUnavailableVolumeSnapshotContentNotReadyFmt, ContentNameFromSnapshot(name)>>
      [] d = 6 -> <<msgUnavailableInvalidVolumeSnapshotContentStatusFmt, ContentNameFromSnapshot(name)>>

\* The snapshots of the request at hand that have a defect.
DefectiveSnapshots ==
    { n \in SnapshotsOf(kind, req) : FirstDefect(req.Namespace, n) # 0 }

ContentFetchedFor(name) ==
    \E i \in 1..Len(calls) :
       /\ calls[i][1] = "GetVolumeSnapshotContent"
       /\ calls[i][2] \in {ContentNameFromSnapshot(name), <<>>}

\* C12: a snapshot's conditions are checked in the order snapshot fetched,
\* snapshot ready, content bound, content fetched, content ready, handle
\* present, and the first that fails is reported with code Unavailable; the
\* content of a missing, unready or unbound snapshot is never fetched, and a
\* driver request with handles exists only when every check passed.
C12_FirstSnapshotDefectReported ==
    ConversionRan =>
       /\ DefectiveSnapshots # {} =>
             /\ pc = "done"
             /\ result.kind = "status"
             /\ result.code = "Unavailable"
             /\ \E n \in DefectiveSnapshots :
                   result.msg = DefectMessage(req.Namespace, n, FirstDefect(req.Namespace, n))
             /\ csiReq = NoCsiReq
       /\ \A n \in SnapshotsOf(kind, req) :
             FirstDefect(req.Namespace, n) \in 1..3 => ~ContentFetchedFor(n)
       /\ csiReq # NoCsiReq =>
             /\ DefectiveSnapshots = {}
             /\ IF kind = "Allocated"
                THEN csiReq.SnapshotId # <<>>
                ELSE csiReq.BaseSnapshotId # <<>> /\ csiReq.TargetSnapshotId # <<>>

C12_Witness ==
    /\ pc = "done"
    /\ kind = "Allocated"
    /\ ConversionRan
    /\ req.SnapshotName = "snap-with-content-not-ready-no-snaphandle"
    /\ result.code = "Unavailable"
    /\ Head(result.msg) = msgUnavailableVolumeSnapshotContentNotReadyFmt
    /\ ContentFetchedFor(req.SnapshotName)

\* The driver of the content bound to a snapshot without defect.
DriverOf(namespace, name) ==
    VolumeSnapshotContent(VolumeSnapshot(namespace, name).boundContentName).driver

\* The snapshots of the request at hand whose content is of another driver.
ForeignSnapshots ==
    { n \in SnapshotsOf(kind, req) : DriverOf(req.Namespace, n) # DriverName }

NoCredentialCall ==
    \A i \in 1..Len(calls) : calls[i][1] \notin {"GetVolumeSnapshotClass", "GetSecret"}

NoDriverCall ==
    /\ \A i \in 1..Len(calls) : calls[i][1] \notin {"CSI.GetMetadataAllocated", "CSI.GetMetadataDelta"}
    /\ received = <<>>

\* C13: when the snapshots resolve and the content of one is of a driver
\* other than the configured one, the conversion fails with InvalidArgument
\* and a message that names that snapshot and the configured driver; no
\* class or secret is fetched and no driver request is made.
C13_DriverMismatchReported ==
    (ConversionRan /\ DefectiveSnapshots = {} /\ ForeignSnapshots # {}) =>
       /\ pc = "done"
       /\ result.kind = "status"
       /\ result.code = "InvalidArgument"
       /\ \E n \in ForeignSnapshots :
             result.msg = <<msgInvalidArgumentSnaphotDriverInvalidFmt, n, DriverName>>
       /\ NoCredentialCall
       /\ csiReq = NoCsiReq
       /\ NoDriverCall

C13_Witness ==
    /\ pc = "done"
    /\ kind = "Allocated"
    /\ ConversionRan
    /\ req.SnapshotName = "snap-with-invalid-driver"
    /\ result.code = "InvalidArgument"
    /\ result.msg = <<msgInvalidArgumentSnaphotDriverInvalidFmt, "snap-with-invalid-driver", "driver-X">>

\* The source volume of a snapshot.
SourceVolumeOf(namespace, name) == VolumeSnapshot(namespace, name).sourceVolume

\* The snapshots of a Delta request resolve, are of the configured driver and
\* are of different source volumes.
DifferentSourceVolumes ==
    /\ kind = "Delta"
    /\ DefectiveSnapshots = {}
    /\ ForeignSnapshots = {}
    /\ SourceVolumeOf(req.Namespace, req.BaseSnapshotName)
          # SourceVolumeOf(req.Namespace, req.TargetSnapshotName)

\* C14: a Delta request whose snapshots both resolve and are both of the
\* configured driver, but are of different source volumes, fails with
\* InvalidArgument and the "different source volumes" message; no class or
\* secret is fetched and the driver is not called.
C14_DifferentSourceVolumesReported ==
    (ConversionRan /\ DifferentSourceVolumes) =>
       /\ pc = "done"
       /\ result.kind = "status"
       /\ result.code = "InvalidArgument"
       /\ result.msg = <<"different source volumes">>
       /\ NoCredentialCall
       /\ csiReq = NoCsiReq
       /\ NoDriverCall

C14_Witness ==
    /\ pc = "done"
    /\ kind = "Delta"
    /\ ConversionRan
    /\ req.BaseSnapshotName = "snap-1"
    /\ req.TargetSnapshotName = "snap-other-volume"
    /\ result.code = "InvalidArgument"
    /\ result.msg = <<"different source volumes">>

\* C15: the checks of a Delta conversion run in phases over both snapshots:
\* a snapshot that does not resolve is reported (Unavailable) whatever the
\* drivers and the source volumes are; with both resolved, a foreign driver
\* is reported whatever the source volumes are; then the source volumes
\* are compared; a class or a secret is fetched only after all this passed.
C15_DeltaChecksInPhases ==
    (ConversionRan /\ kind = "Delta") =>
       /\ DefectiveSnapshots # {} =>
             /\ pc = "done"
             /\ result.code = "Unavailable"
             /\ \E n \in DefectiveSnapshots :
                   result.msg = DefectMessage(req.Namespace, n, FirstDefect(req.Namespace, n))
       /\ (DefectiveSnapshots = {} /\ ForeignSnapshots # {}) =>
             /\ pc = "done"
             /\ result.code = "InvalidArgument"
             /\ Head(result.msg) = msgInvalidArgumentSnaphotDriverInvalidFmt
       /\ DifferentSourceVolumes =>
             /\ pc = "done"
             /\ result.code = "InvalidArgument"
             /\ Head(result.msg) = msgInvalidArgumentDiffSnapshotSourceVolumes
       /\ ~NoCredentialCall =>
             /\ DefectiveSnapshots = {}
             /\ ForeignSnapshots = {}
             /\ ~DifferentSourceVolumes
             /\ \A i, j \in 1..Len(calls) :
                   (calls[i][1] \in {"GetVolumeSnapshotClass", "GetSecret"}
                      /\ calls[j][1] \in {"GetVolumeSnapshot", "GetVolumeSnapshotContent"}) => j < i

C15_Witness ==
    /\ pc = "done"
    /\ kind = "Delta"
    /\ ConversionRan
    /\ req.BaseSnapshotName = "snap-not-ready"
    /\ req.TargetSnapshotName = "snap-with-invalid-driver"
    /\ result.code = "Unavailable"
    /\ result.msg = <<msgUnavailableVolumeSnapshotNotReadyFmt, "snap-not-ready">>

\* The snapshot whose class gives the credentials of the request at hand.
PrimarySnapshot == IF kind = "Allocated" THEN req.SnapshotName ELSE req.TargetSnapshotName

\* The class of the content bound to a snapshot without defect, the secret
\* that class refers to and that secret.
ClassOf(namespace, name) ==
    VolumeSnapshotContent(VolumeSnapshot(namespace, name).boundContentName).className

SecretRefOf(namespace, name) == VolumeSnapshotClassSecretRef(ClassOf(namespace, name))

SecretOf(namespace, name) == SecretData(SecretRefOf(namespace, name).name)

HasSecretRef(namespace, name) ==
    ClassOf(namespace, name) # "" /\ SecretRefOf(namespace, name).name # ""

\* C16: a driver request that was assembled carries the handle of each
\* snapshot the request names (for Delta the base's as base and the target's
\* as target), the caller's starting offset and maximum of results, and the
\* secrets of the class of the snapshot (for Delta, of the target).
C16_DriverRequestCarriesRequest ==
    csiReq # NoCsiReq =>
       /\ ConversionRan
       /\ IF kind = "Allocated"
          THEN /\ csiReq.SnapshotId = HandleFromSnapshot(req.SnapshotName)
               /\ csiReq.BaseSnapshotId = <<>>
               /\ csiReq.TargetSnapshotId = <<>>
          ELSE /\ csiReq.SnapshotId = <<>>
               /\ csiReq.BaseSnapshotId = HandleFromSnapshot(req.BaseSnapshotName)
               /\ csiReq.TargetSnapshotId = HandleFromSnapshot(req.TargetSnapshotName)
       /\ csiReq.StartingOffset = req.StartingOffset
       /\ csiReq.MaxResults = req.MaxResults
       /\ IF HasSecretRef(req.Namespace, PrimarySnapshot)
          THEN /\ DOMAIN csiReq.Secrets = DOMAIN SecretOf(req.Namespace, PrimarySnapshot).data
               /\ \A k \in DOMAIN csiReq.Secrets :
                     csiReq.Secrets[k] = SecretOf(req.Namespace, PrimarySnapshot).data[k].bytes
          ELSE csiReq.Secrets = <<>>

C16_Witness ==
    /\ pc = "open"
    /\ kind = "Delta"
    /\ req.BaseSnapshotName = "snap-no-class"
    /\ req.TargetSnapshotName = "snap-1"
    /\ req.StartingOffset = 25
    /\ req.MaxResults = 1
    /\ csiReq.BaseSnapshotId = <<"snap-handle", "snap-no-class">>
    /\ csiReq.TargetSnapshotId = <<"snap-handle", "snap-1">>
    /\ csiReq.StartingOffset = 25
    /\ csiReq.MaxResults = 1
    /\ DOMAIN csiReq.Secrets = {"userID", "userKey"}

\* C17: the credentials are empty, and no secret is fetched, when the
\* snapshot's class name is missing or the class refers to no secret;
\* otherwise they are the data of the secret, key for key, as strings; when
\* the secret cannot be fetched the conversion fails with Unavailable and
\* the failed-to-get-credentials message and no driver request is made.
C17_CredentialsOfClass ==
    (ConversionRan /\ DefectiveSnapshots = {} /\ ForeignSnapshots = {}
       /\ (kind = "Delta" => ~DifferentSourceVolumes)) =>
       IF ~HasSecretRef(req.Namespace, PrimarySnapshot)
       THEN /\ \A i \in 1..Len(calls) : calls[i][1] # "GetSecret"
            /\ ClassOf(req.Namespace, PrimarySnapshot) = "" => NoCredentialCall
            /\ csiReq # NoCsiReq
            /\ csiReq.Secrets = <<>>
       ELSE /\ \E i \in 1..Len(calls) :
                  calls[i] = <<"GetSecret", SecretRefOf(req.Namespace, PrimarySnapshot).namespace,
                               SecretRefOf(req.Namespace, PrimarySnapshot).name>>
            /\ IF SecretOf(req.Namespace, PrimarySnapshot).exists
               THEN /\ csiReq # NoCsiReq
                    /\ DOMAIN csiReq.Secrets = DOMAIN SecretOf(req.Namespace, PrimarySnapshot).data
                    /\ \A k \in DOMAIN csiReq.Secrets :
                          csiReq.Secrets[k] = SecretOf(req.Namespace, PrimarySnapshot).data[k].bytes
               ELSE /\ pc = "done"
                    /\ result.kind = "status"
                    /\ result.code = "Unavailable"
                    /\ Head(result.msg) = msgUnavailableFailedToGetCredentials
                    /\ csiReq = NoCsiReq
                    /\ NoDriverCall

C17_Witness ==
    /\ pc = "done"
    /\ kind = "Allocated"
    /\ ConversionRan
    /\ req.SnapshotName = "snap-with-invalid-secrets"
    /\ result.code = "Unavailable"
    /\ Head(result.msg) = msgUnavailableFailedToGetCredentials
    /\ calls[Len(calls)] = <<"GetSecret", "secret-ns", "secret-missing">>

\* The caller cancelled while the handler was forwarding.
CancelledWhileForwarding == cancelled /\ pc \in {"recv", "send"}

\* C18 as stated: a handler whose caller cancelled while it was forwarding
\* returns an error status.
C18_CancelledReturnsErrorStatus ==
    (cancelled /\ pc = "done") => result.kind = "status"

\* C18, amended: once the caller has cancelled while the handler forwards,
\* the context of the driver stream is done, a pending Recv returns, and the
\* handler eventually returns; it returns an error status unless the Recv
\* it was in reported the end of the driver's stream, which it answers nil.
C18_CancelEndsHandler ==
    CancelledWhileForwarding ~>
       (/\ pc = "done"
        /\ cancelled
        /\ handlerContext(kind, req, [done |-> cancelled]).done
        /\ (result.kind = "status" \/ (recvEnd = ioEOF /\ result = Nil)))

C18_Witness ==
    /\ pc = "done"
    /\ cancelled
    /\ recvEnd = ctxCanceled
    /\ result.kind = "status"
    /\ result.code = "Canceled"
    /\ Len(received) = 1
    /\ Len(sent) = 1

\* C19: the readiness flag is false until a writer runs, and from then on it
\* is what the writer that ran last wrote: true after CSIDriverIsReady,
\* false after CSIDriverIsNotReady; no step of a handler changes it.
C19_ReadyIsLastWrite ==
    /\ lastWrite \in {"none", "CSIDriverIsReady", "CSIDriverIsNotReady"}
    /\ ready = (lastWrite = "CSIDriverIsReady")

C19_Witness ==
    /\ pc = "send"
    /\ ~ready
    /\ lastWrite = "CSIDriverIsNotReady"
    /\ calls[2] = <<"IsCSIDriverReady", TRUE>>

\* Whether the arguments `a` break the rule on `field`.
Violates(a, field) ==
    CASE field = "Emitter"         -> ~a.Emitter
      [] field = "Namespace"       -> a.Namespace = ""
      [] field = "SnapshotName"    -> a.SnapshotName = ""
      [] field = "StartingOffset"  -> a.StartingOffset < 0
      [] field = "MaxResults"      -> a.MaxResults < 0
      [] field = "ServiceAccount"  -> (a.SANamespace = "") # (a.SAName = "")
      [] field = "TokenExpirySecs" -> a.TokenExpirySecs < 0

\* The field an error of the validation names.
FieldNamedBy(err) ==
    CASE err.msg[2] = ": missing Emitter"         -> "Emitter"
      [] err.msg[2] = ": missing Namespace"       -> "Namespace"
      [] err.msg[2] = ": missing SnapshotName"    -> "SnapshotName"
      [] err.msg[2] = ": invalid TokenExpirySecs" -> "TokenExpirySecs"
      [] err.msg[2] = ": invalid MaxResults"      -> "MaxResults"
      [] err.msg[2] \in {": SAName provided but SANamespace missing",
                         ": SANamespace provided but SAName missing"} -> "ServiceAccount"
      [] OTHER -> "other"

\* The iterator went past the validation of its arguments.
ValidationPassed ==
    pc \notin {"GetSnapshotMetadata", "returned"} \/ (pc = "returned" /\ calls # <<>>)

\* GetSnapshotMetadata reports the first field, in `order`, that the
\* arguments break the rule on, and does so before any call to the cluster.
ValidatesInOrder(order) ==
    pc # "GetSnapshotMetadata" =>
       LET broken == { i \in 1..Len(order) : Violates(req, order[i]) } IN
       IF broken = {}
       THEN ValidationPassed
       ELSE /\ pc = "returned"
            /\ calls = <<>>
            /\ errorsIs(result, ErrInvalidArgs)
            /\ FieldNamedBy(result) = order[CHOOSE i \in broken : \A j \in broken : i <= j]

StreamingCalls ==
    { i \in 1..Len(calls) : calls[i][1] \in {"GetMetadataAllocated", "GetMetadataDelta"} }

\* C21: GetSnapshotMetadata rejects arguments with a negative StartingOffset
\* with an error wrapping ErrInvalidArgs, and no request to the gateway
\* carries a negative StartingOffset.
C21_NegativeStartingOffsetRejected ==
    /\ (req.StartingOffset < 0 /\ pc # "GetSnapshotMetadata") =>
          (pc = "returned" /\ errorsIs(result, ErrInvalidArgs))
    /\ \A i \in StreamingCalls : calls[i][3].StartingOffset >= 0

\* Exactly one of SANamespace and SAName is empty.
AsymmetricServiceAccount(a) == (a.SANamespace = "") # (a.SAName = "")

\* The arguments break no rule that Args.Validate tests before the pair.
NoEarlierViolation(a) ==
    \A f \in {"Emitter", "Namespace", "SnapshotName", "TokenExpirySecs", "MaxResults"} :
       ~Violates(a, f)

TokenRequests == { i \in 1..Len(calls) : calls[i][1] = "ServiceAccounts.CreateToken" }

\* C23: a token is requested with a lifetime of DefaultTokenExpirySeconds
\* (600) when TokenExpirySecs is 0 and of TokenExpirySecs when it is positive;
\* a negative TokenExpirySecs is rejected with an error wrapping
\* ErrInvalidArgs; no token is requested or minted with a lifetime that is
\* not positive.
C23_TokenLifetime ==
    /\ (req.TokenExpirySecs < 0 /\ pc # "GetSnapshotMetadata") =>
          (pc = "returned" /\ errorsIs(result, ErrInvalidArgs) /\ TokenRequests = {})
    /\ \A i \in TokenRequests :
          /\ calls[i][4].ExpirationSeconds > 0
          /\ calls[i][4].ExpirationSeconds =
                IF req.TokenExpirySecs = 0 THEN DefaultTokenExpirySeconds
                ELSE req.TokenExpirySecs
    /\ iter.securityToken # <<>> =>
          /\ TokenRequests # {}
          /\ iter.securityToken[5] = calls[CHOOSE i \in TokenRequests : TRUE][4].ExpirationSeconds

C23_Witness ==
    /\ req.TokenExpirySecs = 0
    /\ pc = "getGRPCClient"
    /\ iter.securityToken # <<>>
    /\ iter.securityToken[5] = DefaultTokenExpirySeconds
    /\ \E i \in TokenRequests : calls[i][4].ExpirationSeconds = DefaultTokenExpirySeconds

\* The iterator has opened its streaming call with success.
Streaming == pc \in {"Recv", "Emit", "Done"}

\* C24: an invocation makes at most one streaming call, and exactly one once
\* its setup has succeeded: GetMetadataAllocated for SnapshotName when
\* PrevSnapshotName is empty, otherwise GetMetadataDelta with base
\* PrevSnapshotName and target SnapshotName; the request carries the minted
\* token, the namespace, and StartingOffset and MaxResults as given.
C24_OneStreamingCall ==
    /\ Cardinality(StreamingCalls) <= 1
    /\ Streaming => Cardinality(StreamingCalls) = 1
    /\ \A i \in StreamingCalls :
          /\ iter.securityToken # <<>>
          /\ \E t \in TokenRequests :
                /\ t < i
                /\ iter.securityToken =
                      MintedToken(calls[t][2], calls[t][3], calls[t][4].Audiences,
                                  calls[t][4].ExpirationSeconds)
          /\ IF req.PrevSnapshotName = ""
             THEN /\ calls[i][1] = "GetMetadataAllocated"
                  /\ calls[i][3] = [SecurityToken  |-> iter.securityToken,
                                    Namespace      |-> req.Namespace,
                                    SnapshotName   |-> req.SnapshotName,
                                    StartingOffset |-> req.StartingOffset,
                                    MaxResults     |-> req.MaxResults]
             ELSE /\ calls[i][1] = "GetMetadataDelta"
                  /\ calls[i][3] = [SecurityToken      |-> iter.securityToken,
                                    Namespace          |-> req.Namespace,
                                    BaseSnapshotName   |-> req.PrevSnapshotName,
                                    TargetSnapshotName |-> req.SnapshotName,
                                    StartingOffset     |-> req.StartingOffset,
                                    MaxResults         |-> req.MaxResults]

C24_Witness ==
    /\ pc = "Recv"
    /\ Len(received) = 1
    /\ req.PrevSnapshotName = "snap-0"
    /\ req.StartingOffset = 25
    /\ req.MaxResults = 1
    /\ \E i \in StreamingCalls :
          /\ calls[i][1] = "GetMetadataDelta"
          /\ calls[i][3].BaseSnapshotName = "snap-0"
          /\ calls[i][3].TargetSnapshotName = "snap-1"
          /\ calls[i][3].StartingOffset = 25

\* The calls of the emitter's Record operation, in order.
RecordCalls ==
    SelectSeq(iter.emitted, LAMBDA e : e.op = "SnapshotMetadataIteratorRecord")

\* The calls of the emitter's Done operation, in order.
DoneCalls ==
    SelectSeq(iter.emitted, LAMBDA e : e.op = "SnapshotMetadataIteratorDone")

\* C25: the emitter's Record operation is called once per record received,
\* in the order received: the k-th call has record number k (1 for the
\* first, no gap, no repeat) and passes the k-th record's BlockMetadataType,
\* VolumeCapacityBytes and block list unchanged.
C25_RecordsNumberedInOrder ==
    /\ Len(RecordCalls) = IF pc = "Emit" THEN Len(received) - 1 ELSE Len(received)
    /\ iter.recordNum = Len(RecordCalls)
    /\ \A k \in 1..Len(RecordCalls) :
          /\ RecordCalls[k].recordNumber = k
          /\ RecordCalls[k].metadata.BlockMetadataType = received[k].BlockMetadataType
          /\ RecordCalls[k].metadata.VolumeCapacityBytes = received[k].VolumeCapacityBytes
          /\ RecordCalls[k].metadata.BlockMetadata = received[k].BlockMetadata

C25_Witness ==
    /\ pc = "Recv"
    /\ Len(received) = MaxRecords
    /\ received[1] # received[2]
    /\ Len(received[2].BlockMetadata) = 2
    /\ Len(RecordCalls) = MaxRecords
    /\ RecordCalls[2].recordNumber = 2
    /\ RecordCalls[2].metadata.BlockMetadata = received[2].BlockMetadata

\* The calls of the emitter's Record operation that answered an error: their
\* positions among the calls of that operation.
FailedRecordCalls == { k \in 1..Len(RecordCalls) : RecordCalls[k].err # Nil }

C27_AbortedReturnsErrCancelled ==
    (pc = "returned" /\ FailedRecordCalls # {}) => errorsIs(result, ErrCancelled)

\* C28: the emitter's Done operation is called at most once; when it is
\* called, the stream has ended with io.EOF after no error, the call is the
\* last call of the emitter, it passes the number of records delivered, and
\* GetSnapshotMetadata returns its answer.  An invocation that has returned
\* has called it if and only if the stream ended with io.EOF: not after a
\* failure of the setup, of the opening of the stream, of a Recv or of the
\* emitter's Record operation.
C28_DoneOnlyAfterCleanEnd ==
    /\ Len(DoneCalls) <= 1
    /\ DoneCalls # <<>> =>
          /\ pc = "returned"
          /\ recvEnd = ioEOF
          /\ FailedRecordCalls = {}
          /\ iter.emitted[Len(iter.emitted)].op = "SnapshotMetadataIteratorDone"
          /\ DoneCalls[1].recordNumber = Len(RecordCalls)
          /\ DoneCalls[1].recordNumber = Len(received)
          /\ result = DoneCalls[1].err
    /\ pc = "returned" => (DoneCalls # <<>> <=> recvEnd = ioEOF)

C28_Witness ==
    /\ pc = "returned"
    /\ Len(received) = MaxRecords
    /\ recvEnd = ioEOF
    /\ Len(DoneCalls) = 1
    /\ DoneCalls[1].recordNumber = MaxRecords
    /\ DoneCalls[1].err \in EmitterDoneErrors
    /\ result = DoneCalls[1].err

\* C29: the streaming call is made with the child context of
\* context.WithCancel; once Run has returned after making the call (clean
\* end, failure to open, Recv error, emitter error, error of Done) the child
\* context is cancelled; the caller's own context is never cancelled by the
\* iterator.
C29_ChildContextCancelledOnReturn ==
    /\ \A i \in StreamingCalls : calls[i][2] = "child"
    /\ (pc = "returned" /\ StreamingCalls # {}) => iter.childDone
    /\ ~cancelled

C29_Witness ==
    /\ pc = "returned"
    /\ StreamingCalls # {}
    /\ FailedRecordCalls # {}
    /\ iter.ctx = "child"
    /\ iter.childDone
    /\ ~cancelled

\* The self-subject reviews in the log of calls, each with the user name it
\* answered: their positions.
SelfSubjectReviewCalls ==
    { i \in 1..Len(calls) : calls[i][1] = "SelfSubjectReviews.Create" }

\* The reads of the discovery record in the log of calls: their positions.
DiscoveryReads ==
    { i \in 1..Len(calls) : calls[i][1] = "SnapshotMetadataServices.Get" }

\* C30: at most one token is requested, for one service account and one
\* audience: the given (SANamespace, SAName) without any self-subject review
\* when SAName is not empty, otherwise the (namespace, name) of the user name
\* "system:serviceaccount:<namespace>:<name>" that the one self-subject
\* review answered; the audience is that of the SnapshotMetadataService
\* record read for the driver.
C30_TokenIdentityAndAudience ==
    /\ Cardinality(TokenRequests) <= 1
    /\ req.SAName # "" => SelfSubjectReviewCalls = {}
    /\ \A t \in TokenRequests :
          /\ IF req.SAName # ""
             THEN /\ calls[t][2] = req.SANamespace
                  /\ calls[t][3] = req.SAName
             ELSE /\ Cardinality(SelfSubjectReviewCalls) = 1
                  /\ \A r \in SelfSubjectReviewCalls :
                        /\ r < t
                        /\ calls[r][2] =
                              UserName(<<"system", "serviceaccount", calls[t][2], calls[t][3]>>)
          /\ Cardinality(DiscoveryReads) = 1
          /\ \A d \in DiscoveryReads :
                /\ d < t
                /\ calls[d][2] = iter.csiDriver
                /\ req.CSIDriver # "" => calls[d][2] = req.CSIDriver
                /\ calls[t][4].Audiences = <<SnapshotMetadataService(calls[d][2]).Audience>>

C30_Witness ==
    /\ pc = "getGRPCClient"
    /\ req.SAName = ""
    /\ \E r \in SelfSubjectReviewCalls :
          calls[r][2] = UserName(<<"system", "serviceaccount", "ns-a", "sa-b">>)
    /\ \E t \in TokenRequests :
          /\ calls[t][2] = "ns-a"
          /\ calls[t][3] = "sa-b"
          /\ calls[t][4].Audiences = <<Audience>>

\* The user name is that of a service account: the well-known prefix and
\* four fields between colons.
ServiceAccountUserName(username) ==
    /\ HasPrefix(username, K8sServiceAccountUserNamePrefix)
    /\ Len(SplitColon(username)) = 4

\* C31: when the self-subject review answers a user name that does not start
\* with "system:serviceaccount:" or does not split at ':' into exactly four
\* fields, Run returns an error wrapping ErrInvalidArgs, reads no discovery
\* record and requests no token.
C31_IdentityUnresolved ==
    \A r \in SelfSubjectReviewCalls :
       (calls[r][3] = Nil /\ ~ServiceAccountUserName(calls[r][2])) =>
          /\ pc = "returned"
          /\ errorsIs(result, ErrInvalidArgs)
          /\ DiscoveryReads = {}
          /\ TokenRequests = {}
          /\ iter.securityToken = <<>>

C31_Witness ==
    /\ pc = "returned"
    /\ calls = << <<"SelfSubjectReviews.Create",
                    UserName(<<"system", "serviceaccount", "a", "b", "c">>), Nil>> >>
    /\ result = ErrorfWrapFirst(ErrInvalidArgs,
                   ": ServiceAccount unspecified and default cannot be determined")

\* The reads of snapshots and of contents in the log of calls, each with its
\* answer: their positions.
SnapshotReads == { i \in 1..Len(calls) : calls[i][1] = "VolumeSnapshots.Get" }
ContentReads == { i \in 1..Len(calls) : calls[i][1] = "VolumeSnapshotContents.Get" }

\* C32: with a CSIDriver given, the discovery record is read under that name
\* and no snapshot or content is read.  With none given, the one snapshot
\* read is SnapshotName of the namespace (never PrevSnapshotName), the one
\* content read is that bound to it, and the discovery record is read under
\* the driver of that content; a snapshot without status or without bound
\* content name makes Run fail with no content read.
C32_DriverOfDiscoveryRecord ==
    /\ Cardinality(DiscoveryReads) <= 1
    /\ req.CSIDriver # "" =>
          /\ SnapshotReads = {}
          /\ ContentReads = {}
          /\ \A d \in DiscoveryReads : calls[d][2] = req.CSIDriver
    /\ req.CSIDriver = "" =>
          /\ Cardinality(SnapshotReads) <= 1
          /\ Cardinality(ContentReads) <= 1
          /\ \A s \in SnapshotReads :
                /\ calls[s][2] = req.Namespace
                /\ calls[s][3] = req.SnapshotName
                /\ (calls[s][4].err = Nil /\
                    (~calls[s][4].hasStatus \/ calls[s][4].BoundVolumeSnapshotContentName = <<>>)) =>
                      /\ pc = "returned"
                      /\ result.kind = "error"
                      /\ ContentReads = {}
                      /\ DiscoveryReads = {}
          /\ \A c \in ContentReads :
                \E s \in SnapshotReads :
                   /\ s < c
                   /\ calls[s][4].err = Nil
                   /\ calls[s][4].BoundVolumeSnapshotContentName = <<calls[c][2]>>
          /\ \A d \in DiscoveryReads :
                \E c \in ContentReads :
                   /\ c < d
                   /\ calls[c][3].err = Nil
                   /\ calls[d][2] = calls[c][3].Driver

C32_Witness ==
    /\ req.CSIDriver = ""
    /\ req.PrevSnapshotName = "snap-0"
    /\ pc = "createSecurityToken"
    /\ \E s \in SnapshotReads : calls[s][3] = "snap-1"
    /\ \E c \in ContentReads : calls[c][2] = ContentNameFromSnapshot("snap-1")
    /\ \E d \in DiscoveryReads : calls[d][2] = DriverName

\* The dials of the gateway in the log of calls: their positions.
Dials == { i \in 1..Len(calls) : calls[i][1] = "grpc.NewClient" }

\* The discovery record read has a CACert that holds no PEM certificate.
UnparseableCACert == iter.smsCR # <<>> /\ iter.smsCR[1].CACert # PEMCertificate

\* C33: when the CACert of the discovery record holds no parseable PEM
\* certificate, the gateway is never dialed, no streaming call is made and
\* neither operation of the emitter is called; once the token is minted, Run
\* returns ErrCACert.
C33_UnparseableCACert ==
    UnparseableCACert =>
       /\ Dials = {}
       /\ StreamingCalls = {}
       /\ iter.emitted = <<>>
       /\ pc \in {"createSecurityToken", "getGRPCClient", "returned"}
       /\ (pc = "returned" /\ iter.securityToken # <<>>) => result = ErrCACert

C33_Witness ==
    /\ UnparseableCACert
    /\ pc = "returned"
    /\ iter.securityToken # <<>>
    /\ result = PlainError("failed to add the SnapshotMetadataService CR CA certificate")
    /\ Dials = {}

\* The place of a call in the setup of Run.
SetupRank(name) ==
    CASE name = "SelfSubjectReviews.Create"       -> 1
      [] name = "VolumeSnapshots.Get"             -> 2
      [] name = "VolumeSnapshotContents.Get"      -> 3
      [] name = "SnapshotMetadataServices.Get"    -> 4
      [] name = "ServiceAccounts.CreateToken"     -> 5
      [] name = "grpc.NewClient"                  -> 6
      [] name \in {"GetMetadataAllocated", "GetMetadataDelta"} -> 7

\* The first texts of the errors of the step that made the call `name` last;
\* the step after the token request, getGRPCClient, fails on the CA
\* certificate before it makes a call.
StepErrors(name) ==
    CASE name = "SelfSubjectReviews.Create" ->
           {"SelfSubjectReviews.Create(): ", "invalid argument"}
      [] name = "VolumeSnapshots.Get" ->
           {"VolumeSnapshots.Get(%s/%s): ",
            "VolumeSnapshot(%s/%s) has no bound VolumeSnapshotContent"}
      [] name = "VolumeSnapshotContents.Get" ->
           {"VolumeSnapshotContents.Get(%s) for VolumeSnapshot(%s/%s): "}
      [] name = "SnapshotMetadataServices.Get" -> {"SnapshotMetadataServices.Get(%s): "}
      [] name = "ServiceAccounts.CreateToken" ->
           {"ServiceAccounts.CreateToken(%s/%s): ",
            "failed to add the SnapshotMetadataService CR CA certificate"}
      [] name = "grpc.NewClient" -> {"grpc.NewClient(%s): "}
      [] name = "GetMetadataAllocated" -> {"GetMetadataAllocated(%s,%s): "}
      [] name = "GetMetadataDelta" -> {"GetMetadataDelta(%s,%s,%s): "}

\* Run has returned from its setup or from the opening of the stream.
SetupFailed ==
    pc = "returned" /\ calls # <<>> /\ received = <<>> /\ recvEnd = NoResult

\* C40: the calls of Run's setup are made in the order self-subject review,
\* snapshot, content, discovery record, token request, dial, streaming call,
\* each at most once; when a step of the setup fails Run returns the error
\* of that step, which is the last one run, and the emitter is not called;
\* the emitter is called only after the streaming call was started.
C40_SetupInOrder ==
    /\ \A i, j \in 1..Len(calls) :
          i < j => SetupRank(calls[i][1]) < SetupRank(calls[j][1])
    /\ SetupFailed =>
          /\ result.kind = "error"
          /\ result.msg[1] \in StepErrors(calls[Len(calls)][1])
          /\ iter.emitted = <<>>
    /\ iter.emitted # <<>> =>
          /\ StreamingCalls # {}
          /\ Dials # {}
          /\ TokenRequests # {}
          /\ DiscoveryReads # {}

C40_Witness ==
    /\ SetupFailed
    /\ Len(calls) = 5
    /\ calls[1][1] = "SelfSubjectReviews.Create"
    /\ calls[2][1] = "VolumeSnapshots.Get"
    /\ calls[3][1] = "VolumeSnapshotContents.Get"
    /\ calls[4][1] = "SnapshotMetadataServices.Get"
    /\ calls[5][1] = "ServiceAccounts.CreateToken"
    /\ result.msg[1] = "ServiceAccounts.CreateToken(%s/%s): "
    /\ iter.emitted = <<>>

\* C35: the handler holds at most one record not yet delivered: the records
\* received from the driver are as many as the sends completed or one more,
\* and the handler is at the driver's Recv only when every record received
\* has been sent.
C35_AtMostOneUndelivered ==
    /\ Len(received) - Len(sent) \in {0, 1}
    /\ pc = "recv" => Len(received) = Len(sent)
    /\ pc = "send" =>
          /\ Len(received) = Len(sent) + 1
          /\ csiResp = received[Len(received)]
    /\ pc # "send" => csiResp = NoResp

C35_Witness ==
    /\ pc = "send"
    /\ Len(received) = MaxRecords
    /\ Len(sent) = MaxRecords - 1
    /\ csiResp = received[MaxRecords]

\* The reads of the readiness flag in the log of calls, each with the value
\* read: their positions.
GateReads == { i \in 1..Len(calls) : calls[i][1] = "IsCSIDriverReady" }

\* The status of a request rejected at the readiness gate.
DriverNotReady == StatusErrorf("Unavailable", "driver not ready", <<>>)

\* C38: a request reads the readiness flag at most once, at the gate.  A
\* request is past the gate only if that read gave true, and is then never
\* answered "driver not ready", whatever the flag has become since; a
\* request whose read gave false is over, with nothing asked of the driver,
\* whatever the flag has become since.
C38_ReadinessReadOnceAtGate ==
    /\ Cardinality(GateReads) <= 1
    /\ pc \in {"convert", "open", "recv", "send"} =>
          \E g \in GateReads : calls[g][2] = TRUE
    /\ (received # <<>> \/ recvEnd # NoResult \/ sendErr # NoResult) =>
          /\ \E g \in GateReads : calls[g][2] = TRUE
          /\ result # DriverNotReady
    /\ result = DriverNotReady => \E g \in GateReads : calls[g][2] = FALSE
    /\ \A g \in GateReads :
          calls[g][2] = FALSE =>
             /\ pc = "done"
             /\ result = DriverNotReady
             /\ g = Len(calls)
             /\ csiReq = NoCsiReq
             /\ received = <<>>
             /\ sent = <<>>

C38_Witness ==
    /\ pc = "done"
    /\ result = Nil
    /\ Len(sent) = MaxRecords
    /\ ~ready
    /\ lastWrite = "CSIDriverIsNotReady"
    /\ \E g \in GateReads : calls[g][2] = TRUE

\* A send to the caller has failed, or the driver's Recv has returned an
\* error or the end of the stream.
LoopEnded == sendErr # NoResult \/ recvEnd # NoResult

\* C39: a failed send, and an error or the end of the stream returned by the
\* driver's Recv, are terminal for the handler: it has returned, only one of
\* the two has happened, and from then on nothing is received from the
\* driver and nothing is sent to the caller until the invocation is over.
C39_LoopEndIsTerminal ==
    /\ [](LoopEnded => (pc = "done" /\ csiResp = NoResp /\
                        (sendErr = NoResult \/ recvEnd = NoResult)))
    /\ [][LoopEnded =>
             \/ UNCHANGED <<pc, received, sent, recvEnd, sendErr, result>>
             \/ (pc' = "idle" /\ received' = <<>> /\ sent' = <<>>)]_vars

C39_Witness ==
    /\ pc = "done"
    /\ sendErr.kind = "status"
    /\ recvEnd = NoResult
    /\ Len(received) = 1
    /\ sent = <<>>
    /\ result = sendErr

DeviceErrors == SelectSeq(calls, LAMBDA c : c[3] # Nil /\ c[3] # ioEOF)

\* C37: when no Seek and no Read fails, SnapshotMetadataIteratorDone of the
\* verifier's emitter returns nil if and only if the two devices have the
\* same length and the same bytes, whatever the lengths are and however many
\* bytes each read returns.
C37_DoneComparesContents ==
    (kind = "VerifierEmitter" /\ pc = "returned" /\ DeviceErrors = <<>>) =>
        ((result = Nil) <=> (req.SourceDevice = req.TargetDevice))

====
